---------------------------- MODULE Spec2Model ----------------------------
(***************************************************************************)
(* A model of the donor-identity resolution core of front-seat/fec-data:   *)
(* the nickname cluster builder (MessyNicknamesManager._merge_names), the  *)
(* nickname index (NicknamesManager), the geography lookups (ZipCodeManager*)
(* and AreaCodeManager), the contact variant expanders                     *)
(* (RefineContactProvider.wrap_contact and                                 *)
(* AlternativeContactsHelper.get_alternatives), the contribution summaries *)
(* (ContributionSummary), the summaries by fuzzy id                        *)
(* (ContributionsManager, FuzzyIdentifier), the summary selector           *)
(* (ContributionSummaryManager) and the batch resolver                     *)
(* (ContactContributionSearcher), called once, again, and by several       *)
(* callers at a time.                                                      *)
(***************************************************************************)
EXTENDS Integers, Sequences, FiniteSets, TLC

VARIABLES
  \* ---- MessyNicknamesManager (server/data/names/nicknames.py) ----
  messy_names,   \* self._messy_names: the list of input name sets
  names,         \* the local list `names` of _merge_names, then self._names
  index,         \* loop variable `index` (0-based, as in the code)
  index2,        \* loop variable `index2` (0-based)
  merged,        \* the flag `merged` of the current pass
  pc,            \* position in _merge_names; "idle" is `self._names is None`
  run            \* 1: the manager built from the raw lines, 2: the manager
                 \* built from the first manager's own output

mergeVars == <<messy_names, names, index, index2, merged, pc, run>>

VARIABLES
  \* ---- NicknamesManager (server/data/names/nicknames.py) ----
  nm_names,       \* self._names: the list of clusters
  index_built,    \* self._name_to_index is not None
  name_to_index,  \* self._name_to_index: a function from names to indexes
  \* ---- ZipCodeManager (server/data/usps.py), AreaCodeManager (npa.py) ----
  zip_details,    \* self._details, as the set the index is built from
  area_codes,     \* self._area_codes, likewise
  \* ---- the last call made, with what it returned ----
  call

lookupVars == <<nm_names, index_built, name_to_index, zip_details, area_codes, call>>

VARIABLES
  \* ---- ContactContributionSearcher (server/data/search.py) ----
  store,          \* the contribution rows of the per-state databases
  extant,         \* the states a database exists for
  related_names,  \* NicknamesManager._related_names (server/data/nicknames.py)
  raw,            \* the contacts of the wrapped provider, in order
  raw_pos,        \* how many of them get_contacts() has taken
  pending,        \* variants of the current raw contact not yet handed out
  seen,           \* self._seen
  state_to_manager,        \* the keys of self._state_to_manager
  import_id_to_summaries,  \* the dict of search_and_summarize_contacts, in
                           \* insertion order
  out_pos,        \* how many groups the second loop has gone through
  output,         \* the pairs yielded so far
  spc,            \* position in search_and_summarize_contacts
  last            \* the last call of search_and_summarize or of
                  \* preferred_summary_for_contact, with what it returned

searchVars ==
  <<store, extant, related_names, raw, raw_pos, pending, seen, state_to_manager,
    import_id_to_summaries, out_pos, output, spc, last>>

VARIABLES
  \* ---- ContributionSummary (server/data/fec/contributions.py) ----
  contributions,  \* the contributions given to new() and add(), in order
  summary         \* the summary: total, by_party, by_committee

summaryVars == <<contributions, summary>>

VARIABLES
  \* ---- ContributionsManager (server/data/fec/contributions.py) ----
  fec_contributions,       \* self._contributions, the raw list
  contribution_summaries,  \* self._contribution_summaries: fuzzy id -> summary
  summarized,              \* self._contribution_summaries is not None
  fcall                    \* the last call on the manager and how it ended

fuzzyVars == <<fec_contributions, contribution_summaries, summarized, fcall>>

VARIABLES
  \* ---- workers calling search_and_summarize on one searcher ----
  wpc,        \* where each worker is in search_and_summarize
  wcontact,   \* the contact each worker was called with
  wsummary,   \* the summary each worker got from the selector
  wcalls,     \* the calls each worker has made
  resolved    \* the calls that returned a summary: who, and for which key

workerVars == <<wpc, wcontact, wsummary, wcalls, resolved>>

VARIABLES
  \* ---- the runs of search_and_summarize_contacts on one searcher ----
  run_no,        \* which call of search_and_summarize_contacts this is
  first_output   \* the pairs the first call yielded, once it is over

runVars == <<run_no, first_output>>

vars ==
  <<mergeVars, lookupVars, searchVars, summaryVars, fuzzyVars, workerVars, runVars>>

---------------------------------------------------------------------------
(* Python values.  A str is the sequence of its characters, so that        *)
(* slicing, len() and case conversion are computed; None is a value that   *)
(* is no str.                                                              *)

None == <<"<None>">>

LowerChars == <<"a", "b", "c", "d", "e", "f", "g", "h", "i", "j", "k", "l", "m",
                "n", "o", "p", "q", "r", "s", "t", "u", "v", "w", "x", "y", "z">>

UpperChars == <<"A", "B", "C", "D", "E", "F", "G", "H", "I", "J", "K", "L", "M",
                "N", "O", "P", "Q", "R", "S", "T", "U", "V", "W", "X", "Y", "Z">>

IsLower(c) == \E i \in DOMAIN LowerChars : LowerChars[i] = c

IsUpper(c) == \E i \in DOMAIN UpperChars : UpperChars[i] = c

IsCased(c) == IsLower(c) \/ IsUpper(c)

ToUpper(c) ==
  IF IsLower(c) THEN UpperChars[CHOOSE i \in DOMAIN LowerChars : LowerChars[i] = c]
  ELSE c

ToLower(c) ==
  IF IsUpper(c) THEN LowerChars[CHOOSE i \in DOMAIN UpperChars : UpperChars[i] = c]
  ELSE c

\* str.title(): a cased character is upper-cased when it follows an uncased
\* one (or starts the string) and lower-cased otherwise.
Title(s) ==
  [i \in 1..Len(s) |->
     IF i = 1 \/ ~IsCased(s[i - 1]) THEN ToUpper(s[i]) ELSE ToLower(s[i])]

\* Two strings equal but for the case of their letters.
CaseEq(a, b) ==
  /\ Len(a) = Len(b)
  /\ \A i \in 1..Len(a) : ToLower(a[i]) = ToLower(b[i])

\* All spellings of s that differ from it in letter case only.
CaseVariants(s) ==
  {q \in [1..Len(s) -> {ToLower(s[i]) : i \in 1..Len(s)} \cup {ToUpper(s[i]) : i \in 1..Len(s)}] :
     CaseEq(q, s)}

\* Python's order of two strings of upper-case letters.
Ord(c) == CHOOSE i \in DOMAIN UpperChars : UpperChars[i] = c

RECURSIVE StrLess(_, _)
StrLess(a, b) ==
  IF b = <<>> THEN FALSE
  ELSE IF a = <<>> THEN TRUE
  ELSE IF Ord(a[1]) # Ord(b[1]) THEN Ord(a[1]) < Ord(b[1])
  ELSE StrLess(Tail(a), Tail(b))

\* The orders in which a set can be iterated: Python fixes none.
Orders(S) ==
  {f \in [1..Cardinality(S) -> S] : \A i, j \in 1..Cardinality(S) : i # j => f[i] # f[j]}

---------------------------------------------------------------------------
(* The values the lookups and the expanders are run on.                    *)

\* The most clusters a NicknamesManager is constructed with.
MaxClusters == 2

\* The names its clusters are drawn from.  NicknamesManager stores the names
\* it is given as they are (nicknames.py:165): in title case, as
\* from_messy_io makes them, or not.
StoredNames == {<<"A", "l">>, <<"A", "L">>, <<"O", "'", "B">>}

ClusterLists == UNION {[1..n -> SUBSET StoredNames] : n \in 0..MaxClusters}

\* The names looked up: every spelling of a stored name, and a name that is
\* stored in no spelling.
QueryNames ==
  UNION {CaseVariants(n) : n \in StoredNames} \cup {<<"C", "y">>}

SEA == <<"S", "E", "A">>
NYC == <<"N", "Y", "C">>
BX == <<"B", "X">>
WA == <<"W", "A">>
NY == <<"N", "Y">>

Z98101 == <<"9", "8", "1", "0", "1">>
Z12345 == <<"1", "2", "3", "4", "5">>
Z00000 == <<"0", "0", "0", "0", "0">>
Z12345_6789 == <<"1", "2", "3", "4", "5", "6", "7", "8", "9">>
Z981 == <<"9", "8", "1">>

NPA206 == <<"2", "0", "6">>
NPA212 == <<"2", "1", "2">>
NPA999 == <<"9", "9", "9">>

PHONE206 == <<"+", "1", "2", "0", "6", "5", "5", "5", "0", "1", "0", "0">>
PHONE212 == <<"+", "1", "2", "1", "2", "5", "5", "5", "0", "1", "0", "0">>
PHONE_UK == <<"+", "4", "4", "2", "0", "7", "9", "4", "6", "0", "9", "5", "8">>

\* ZipCodeDetail rows (usps.py:11-15); one zip is shared by two cities.
ZipDetailRows ==
  { [zip5 |-> Z98101, city |-> SEA, state |-> WA],
    [zip5 |-> Z12345, city |-> NYC, state |-> NY],
    [zip5 |-> Z12345, city |-> BX, state |-> NY] }

\* AreaCode rows (npa.py:11-17); get_str accepts an empty city or state
\* (validations.py:70-77).
AreaCodeRows ==
  { [npa_id |-> NPA206, city |-> SEA, state |-> WA],
    [npa_id |-> NPA206, city |-> <<>>, state |-> WA],
    [npa_id |-> NPA212, city |-> NYC, state |-> <<>>] }

ZipQueries == {Z98101, Z12345, Z00000, Z12345_6789, Z981}

NpaQueries == {NPA206, NPA212, NPA999}

\* Contact (contacts/__init__.py:9-18), with the import_id the contact
\* providers give it (contacts/google.py:38-47).
Contacts ==
  [import_id : {<<"i", "1">>},
   first_name : {<<"A", "L">>},
   last_name : {<<"S", "M", "I", "T", "H">>},
   city : {None, SEA},
   state : {None, WA},
   phone : {None, PHONE206, PHONE212, PHONE_UK},
   zip_code : {None, Z98101, Z12345_6789, Z00000}]

NoContact ==
  [import_id |-> None, first_name |-> None, last_name |-> None, city |-> None,
   state |-> None, phone |-> None, zip_code |-> None]

\* The record of a call: what was called with what, and what came back.
NoCall ==
  [op |-> "none", name |-> <<>>, idx |-> 0, key |-> <<>>, contact |-> NoContact,
   raised |-> FALSE, built_now |-> FALSE, found |-> FALSE, index |-> 0,
   members |-> {}, pairs |-> <<>>, codes |-> <<>>, variants |-> <<>>, log |-> <<>>]

\* The empty dict.
EmptyMap == [n \in {} |-> 0]

\* No contribution summary is being built.
SummaryIdle ==
  /\ contributions = <<>>
  /\ summary = [none |-> TRUE]

\* The workers of the searcher.
Workers == {1, 2}

\* No worker has called the searcher.
WorkersIdle ==
  /\ wpc = [w \in Workers |-> "idle"]
  /\ wcontact = [w \in Workers |-> NoContact]
  /\ wsummary = [w \in Workers |-> [none |-> TRUE, rows |-> {}, total |-> 0]]
  /\ wcalls = [w \in Workers |-> 0]
  /\ resolved = {}

\* The searcher's first run.
FirstRun ==
  /\ run_no = 1
  /\ first_output = <<>>

\* No ContributionsManager is constructed.
FuzzyIdle ==
  /\ fec_contributions = <<>>
  /\ contribution_summaries = EmptyMap
  /\ summarized = FALSE
  /\ fcall = [op |-> "none"]

\* No searcher is constructed.
SearchIdle ==
  /\ store = {}
  /\ extant = {}
  /\ related_names = <<>>
  /\ raw = <<>>
  /\ raw_pos = 0
  /\ pending = <<>>
  /\ seen = {}
  /\ state_to_manager = {}
  /\ import_id_to_summaries = <<>>
  /\ out_pos = 0
  /\ output = <<>>
  /\ spc = "idle"
  /\ last = [op |-> "none"]

\* The managers as the cluster builder's runs leave them: not used.
LookupIdle ==
  /\ nm_names = <<>>
  /\ index_built = FALSE
  /\ name_to_index = EmptyMap
  /\ zip_details = {}
  /\ area_codes = {}
  /\ call = NoCall

---------------------------------------------------------------------------
(* Bounds of the cluster builder's inputs.                                 *)

\* The name tokens the input lines are drawn from (title-cased, as
\* from_messy_io produces them).
NameTokens == {<<"A", "l">>, <<"B", "o">>, <<"C", "y">>}

\* The largest number of input lines.
MaxLines == 4

\* A line is any set of tokens; nicknames.py appends the empty set of an
\* empty line too (nicknames.py:34-36).
LineSets == SUBSET NameTokens

MessyInputs == UNION {[1..n -> LineSets] : n \in 0..MaxLines}

---------------------------------------------------------------------------
(* Helpers of the merge loop.                                              *)

\* Python's `del s[i]` for a 0-based i.
DelAt(s, i) == [k \in 1..(Len(s) - 1) |-> IF k < i + 1 THEN s[k] ELSE s[k + 1]]

\* `names[index] & names[index2]` is non-empty (nicknames.py:89).
Overlaps_Always(a, b) == TRUE

Overlaps(a, b) == (a \cap b) # {}

\* A faulty variant: the later set is dropped without being united into the earlier.
MergeAt_DropOnly(s, i, j) == DelAt(s, j)

\* A faulty variant: the earlier set is united into the later one, and the earlier
\* one is deleted.
MergeAt_IntoLater(s, i, j) ==
  DelAt([s EXCEPT ![j + 1] = s[j + 1] \cup s[i + 1]], i)

\* `names[index] |= names[index2]; del names[index2]` (nicknames.py:90-91).
MergeAt(s, i, j) == DelAt([s EXCEPT ![i + 1] = s[i + 1] \cup s[j + 1]], j)

\* A faulty variant: a single pass, whatever it merged.
PassAgain_Never(m) == FALSE

\* `if not merged: break` (nicknames.py:96-97): another pass runs iff the
\* pass that just ended merged something.
PassAgain(m) == m

---------------------------------------------------------------------------
(* MessyNicknamesManager._merge_names, one action per step of its loops.   *)

\* names = list(self.messy_names) (nicknames.py:82), entered from the
\* `names` property when self._names is None (nicknames.py:100-103).
StartMerge ==
  /\ pc = "idle"
  /\ names' = messy_names
  /\ pc' = "pass"
  /\ UNCHANGED <<messy_names, index, index2, merged, run>>
  /\ UNCHANGED <<lookupVars, searchVars, summaryVars, fuzzyVars, workerVars, runVars>>

\* while True: index = 0; merged = False (nicknames.py:83-85).
BeginPass ==
  /\ pc = "pass"
  /\ index' = 0
  /\ merged' = FALSE
  /\ pc' = "outer"
  /\ UNCHANGED <<messy_names, names, index2, run>>
  /\ UNCHANGED <<lookupVars, searchVars, summaryVars, fuzzyVars, workerVars, runVars>>

\* while index < len(names): index2 = index + 1 (nicknames.py:86-87).
OuterEnter ==
  /\ pc = "outer"
  /\ index < Len(names)
  /\ index2' = index + 1
  /\ pc' = "inner"
  /\ UNCHANGED <<messy_names, names, index, merged, run>>
  /\ UNCHANGED <<lookupVars, searchVars, summaryVars, fuzzyVars, workerVars, runVars>>

\* The outer loop ends; `if not merged: break` and self._names = names
\* (nicknames.py:96-98).
OuterExit ==
  /\ pc = "outer"
  /\ ~(index < Len(names))
  /\ pc' = IF PassAgain(merged) THEN "pass" ELSE "done"
  /\ UNCHANGED <<messy_names, names, index, index2, merged, run>>
  /\ UNCHANGED <<lookupVars, searchVars, summaryVars, fuzzyVars, workerVars, runVars>>

\* The inner loop's body when the two sets overlap (nicknames.py:88-92).
InnerMerge ==
  /\ pc = "inner"
  /\ index2 < Len(names)
  /\ Overlaps(names[index + 1], names[index2 + 1])
  /\ names' = MergeAt(names, index, index2)
  /\ merged' = TRUE
  /\ UNCHANGED <<messy_names, index, index2, pc, run>>
  /\ UNCHANGED <<lookupVars, searchVars, summaryVars, fuzzyVars, workerVars, runVars>>

\* The inner loop's body when they do not (nicknames.py:93-94).
InnerSkip ==
  /\ pc = "inner"
  /\ index2 < Len(names)
  /\ ~Overlaps(names[index + 1], names[index2 + 1])
  /\ index2' = index2 + 1
  /\ UNCHANGED <<messy_names, names, index, merged, pc, run>>
  /\ UNCHANGED <<lookupVars, searchVars, summaryVars, fuzzyVars, workerVars, runVars>>

\* The inner loop ends: index += 1 (nicknames.py:95).
InnerExit ==
  /\ pc = "inner"
  /\ ~(index2 < Len(names))
  /\ index' = index + 1
  /\ pc' = "outer"
  /\ UNCHANGED <<messy_names, names, index2, merged, run>>
  /\ UNCHANGED <<lookupVars, searchVars, summaryVars, fuzzyVars, workerVars, runVars>>

\* A second manager is constructed from the first one's output:
\* MessyNicknamesManager(first.names) (nicknames.py:27-29).
Refeed ==
  /\ pc = "done"
  /\ run = 1
  /\ messy_names' = names
  /\ names' = <<>>
  /\ index' = 0
  /\ index2' = 0
  /\ merged' = FALSE
  /\ pc' = "idle"
  /\ run' = 2
  /\ UNCHANGED <<lookupVars, searchVars, summaryVars, fuzzyVars, workerVars, runVars>>

MergeInit ==
  /\ SearchIdle
  /\ SummaryIdle
  /\ FuzzyIdle
  /\ WorkersIdle
  /\ FirstRun
  /\ messy_names \in MessyInputs
  /\ names = <<>>
  /\ index = 0
  /\ index2 = 0
  /\ merged = FALSE
  /\ pc = "idle"
  /\ run = 1
  /\ LookupIdle

MergeNext ==
  \/ StartMerge
  \/ BeginPass
  \/ OuterEnter
  \/ OuterExit
  \/ InnerMerge
  \/ InnerSkip
  \/ InnerExit
  \/ Refeed

\* The loop is straight-line code of one thread: a step that can be taken
\* is taken.
SpecMerge == MergeInit /\ [][MergeNext]_vars /\ WF_vars(MergeNext)

---------------------------------------------------------------------------
(* NicknamesManager: the name-to-index map and its lookups.                *)

\* A faulty variant: the later cluster overwrites the earlier one's index, as
\* MockGetNicknameIndex does (nicknames.py:136-140).
RECURSIVE IndexNamesFrom_Overwrite(_, _, _)
IndexNamesFrom_Overwrite(s, k, m) ==
  IF k > Len(s) THEN {[map |-> m, raised |-> FALSE]}
  ELSE IndexNamesFrom_Overwrite(s, k + 1, [n \in s[k] |-> k - 1] @@ m)

\* NicknamesManager._index_names from cluster k on, the map being m so far
\* (nicknames.py:214-218): the outcomes it can end with.  A cluster is
\* iterated in no fixed order, so when the cluster holds a name that is
\* already in the map, any of its other names may have been added before
\* the ValueError is raised.
RECURSIVE IndexNamesFrom(_, _, _)
IndexNamesFrom(s, k, m) ==
  IF k > Len(s) THEN {[map |-> m, raised |-> FALSE]}
  ELSE LET dup == s[k] \cap DOMAIN m
       IN IF dup = {}
          THEN IndexNamesFrom(s, k + 1, m @@ [n \in s[k] |-> k - 1])
          ELSE {[map |-> m @@ [n \in before |-> k - 1], raised |-> TRUE] :
                  before \in SUBSET (s[k] \ dup)}

\* NicknamesManager._index_names (nicknames.py:211-218).
IndexNames(s) == IndexNamesFrom(s, 1, EmptyMap)

\* The name_to_index property (nicknames.py:220-235): the map is built when
\* it is None, and self._name_to_index is a dict from then on (it is set to
\* {} before the loop that may raise, nicknames.py:213).
IndexIfNeeded ==
  IF index_built
  THEN {[map |-> name_to_index, raised |-> FALSE, built_now |-> FALSE]}
  ELSE {[map |-> o.map, raised |-> o.raised, built_now |-> TRUE] :
          o \in IndexNames(nm_names)}

\* self.name_to_index.get(name.title()) (nicknames.py:239); found is FALSE
\* for None.
DictGet(m, q) ==
  LET key == Title(q)
  IN [found |-> key \in DOMAIN m, index |-> IF key \in DOMAIN m THEN m[key] ELSE 0]

\* A faulty variant: no range check, so Python's indexing decides: IndexError past
\* the end, the list counted from its end for a negative index.
NamesForIndex_Unchecked(s, i) ==
  IF i >= Len(s) \/ i < 0 - Len(s) THEN [raised |-> TRUE, members |-> {}]
  ELSE [raised |-> FALSE, members |-> IF i < 0 THEN s[Len(s) + i + 1] ELSE s[i + 1]]

\* NicknamesManager.get_names_for_index (nicknames.py:241-245).
NamesForIndex(s, i) ==
  IF i < 0 \/ i >= Len(s) THEN [raised |-> FALSE, members |-> {}]
  ELSE [raised |-> FALSE, members |-> s[i + 1]]

\* manager.name_to_index (nicknames.py:230-235).
NameToIndexCall ==
  /\ \E o \in IndexIfNeeded :
       /\ index_built' = TRUE
       /\ name_to_index' = o.map
       /\ call' = [NoCall EXCEPT !.op = "name_to_index", !.raised = o.raised,
                                 !.built_now = o.built_now]
  /\ UNCHANGED <<nm_names, zip_details, area_codes>>
  /\ UNCHANGED <<mergeVars, searchVars, summaryVars, fuzzyVars, workerVars, runVars>>

\* manager.get_index(name) (nicknames.py:237-239).
GetIndex(q) ==
  /\ \E o \in IndexIfNeeded :
       /\ index_built' = TRUE
       /\ name_to_index' = o.map
       /\ call' = IF o.raised
                  THEN [NoCall EXCEPT !.op = "get_index", !.name = q, !.raised = TRUE,
                                      !.built_now = o.built_now]
                  ELSE [NoCall EXCEPT !.op = "get_index", !.name = q,
                                      !.built_now = o.built_now,
                                      !.found = DictGet(o.map, q).found,
                                      !.index = DictGet(o.map, q).index]
  /\ UNCHANGED <<nm_names, zip_details, area_codes>>
  /\ UNCHANGED <<mergeVars, searchVars, summaryVars, fuzzyVars, workerVars, runVars>>

\* manager.get_names_for_index(index) (nicknames.py:241-245).
GetNamesForIndex(i) ==
  /\ call' = [NoCall EXCEPT !.op = "get_names_for_index", !.idx = i,
                            !.raised = NamesForIndex(nm_names, i).raised,
                            !.members = NamesForIndex(nm_names, i).members]
  /\ UNCHANGED <<nm_names, index_built, name_to_index, zip_details, area_codes>>
  /\ UNCHANGED <<mergeVars, searchVars, summaryVars, fuzzyVars, workerVars, runVars>>

\* manager.get_related_names(name) (nicknames.py:247-256).
GetRelatedNames(q) ==
  /\ \E o \in IndexIfNeeded :
       /\ index_built' = TRUE
       /\ name_to_index' = o.map
       /\ call' =
            IF o.raised
            THEN [NoCall EXCEPT !.op = "get_related_names", !.name = q,
                                !.raised = TRUE, !.built_now = o.built_now]
            ELSE IF ~DictGet(o.map, q).found
            THEN [NoCall EXCEPT !.op = "get_related_names", !.name = q,
                                !.built_now = o.built_now]
            ELSE [NoCall EXCEPT !.op = "get_related_names", !.name = q,
                                !.built_now = o.built_now,
                                !.found = TRUE,
                                !.index = DictGet(o.map, q).index,
                                !.raised = NamesForIndex(nm_names, DictGet(o.map, q).index).raised,
                                !.members = NamesForIndex(nm_names, DictGet(o.map, q).index).members]
  /\ UNCHANGED <<nm_names, zip_details, area_codes>>
  /\ UNCHANGED <<mergeVars, searchVars, summaryVars, fuzzyVars, workerVars, runVars>>

---------------------------------------------------------------------------
(* ZipCodeManager (usps.py) and AreaCodeManager (npa.py).                  *)

\* s[:n]
Prefix(s, n) == SubSeq(s, 1, IF Len(s) < n THEN Len(s) ELSE n)

\* ZipCodeManager.get_details (usps.py:62-69): the rows of the zip's first
\* five digits, sorted by city; rows of one city come in the order the
\* frozenset is iterated in.
ZipGetDetails(z) ==
  IF Len(z) \notin {5, 9} THEN {<<>>}
  ELSE {p \in Orders({d \in zip_details : d.zip5 = Prefix(z, 5)}) :
          \A i, j \in 1..Len(p) : i < j => ~StrLess(p[j].city, p[i].city)}

\* ZipCodeManager.get_city_states (usps.py:71-73).
ZipCityStates(z) ==
  {[i \in 1..Len(p) |-> <<p[i].city, p[i].state>>] : p \in ZipGetDetails(z)}

\* AreaCodeManager.get_area_codes (npa.py:80-82): the frozenset of the
\* NPA id's rows, or [].
NpaGetAreaCodes(k) == Orders({a \in area_codes : a.npa_id = k})

\* AreaCodeManager.get_city_states (npa.py:84-89).
NpaCityStates(k) ==
  {[i \in 1..Len(p) |-> <<p[i].city, p[i].state>>] : p \in NpaGetAreaCodes(k)}

\* zip_code_manager.get_city_states(zip_code)
ZipLookup(z) ==
  /\ \E r \in ZipCityStates(z) :
       call' = [NoCall EXCEPT !.op = "zip_get_city_states", !.key = z, !.pairs = r]
  /\ UNCHANGED <<nm_names, index_built, name_to_index, zip_details, area_codes>>
  /\ UNCHANGED <<mergeVars, searchVars, summaryVars, fuzzyVars, workerVars, runVars>>

\* area_code_manager.get_area_codes(npa_id)
NpaAreaCodes(k) ==
  /\ \E r \in NpaGetAreaCodes(k) :
       call' = [NoCall EXCEPT !.op = "npa_get_area_codes", !.key = k, !.codes = r]
  /\ UNCHANGED <<nm_names, index_built, name_to_index, zip_details, area_codes>>
  /\ UNCHANGED <<mergeVars, searchVars, summaryVars, fuzzyVars, workerVars, runVars>>

\* area_code_manager.get_city_states(npa_id)
NpaLookup(k) ==
  /\ \E r \in NpaCityStates(k) :
       call' = [NoCall EXCEPT !.op = "npa_get_city_states", !.key = k, !.pairs = r]
  /\ UNCHANGED <<nm_names, index_built, name_to_index, zip_details, area_codes>>
  /\ UNCHANGED <<mergeVars, searchVars, summaryVars, fuzzyVars, workerVars, runVars>>

---------------------------------------------------------------------------
(* Contact (contacts/__init__.py) and the two expanders.                   *)

\* bool(s) of an Optional[str]
Truthy(s) == s # None /\ s # <<>>

\* Contact.has_city_state (contacts/__init__.py:63-66).
HasCityState(c) == c.city # None /\ c.state # None

\* Contact.has_zip (contacts/__init__.py:53-56).
HasZip(c) == c.zip_code # None

\* Contact.zip5 (contacts/__init__.py:20-23).
Zip5(c) == IF Truthy(c.zip_code) THEN Prefix(c.zip_code, 5) ELSE None

\* get_npa_id (phone.py:25-35).
GetNpaId(e164) ==
  IF Prefix(e164, 2) # <<"+", "1">> THEN None
  ELSE IF Len(e164) # 12 THEN None
  ELSE SubSeq(e164, 3, 5)

\* Contact.npa_id (contacts/__init__.py:68-71).
NpaId(c) == IF Truthy(c.phone) THEN GetNpaId(c.phone) ELSE None

\* Contact.has_us_phone (contacts/__init__.py:73-76).
HasUsPhone(c) == NpaId(c) # None

\* Contact.with_city_state (contacts/__init__.py:49-51).
WithCityState(c, city, state) == [c EXCEPT !.city = city, !.state = state]

\* The variants made of a sequence of (city, state) pairs.
VariantsOf(c, pairs) ==
  [i \in 1..Len(pairs) |-> WithCityState(c, pairs[i][1], pairs[i][2])]

\* A faulty variant: the zip code is looked at before the city and state.
WrapBranch_ZipFirst(c) ==
  IF HasZip(c) THEN "zip"
  ELSE IF HasCityState(c) THEN "as_is"
  ELSE IF HasUsPhone(c) THEN "phone"
  ELSE "none"

\* A faulty variant: the phone is looked at before the zip code.
WrapBranch_PhoneFirst(c) ==
  IF HasCityState(c) THEN "as_is"
  ELSE IF HasUsPhone(c) THEN "phone"
  ELSE IF HasZip(c) THEN "zip"
  ELSE "none"

\* The branch RefineContactProvider.wrap_contact takes (refine.py:87, 90,
\* 96, 103).
WrapBranch(c) ==
  IF HasCityState(c) THEN "as_is"
  ELSE IF HasZip(c) THEN "zip"
  ELSE IF HasUsPhone(c) THEN "phone"
  ELSE "none"

\* RefineContactProvider.wrap_contact (refine.py:85-103): the variants it
\* yields, the lookups it consults on the way, and whether an assert fails.
WrapOutcomes(c) ==
  CASE WrapBranch(c) = "as_is" ->
         {[variants |-> <<c>>, log |-> <<>>, raised |-> FALSE]}
    [] WrapBranch(c) = "zip" ->
         IF ~Truthy(Zip5(c))
         THEN {[variants |-> <<>>, log |-> <<>>, raised |-> TRUE]}
         ELSE {[variants |-> VariantsOf(c, r), log |-> <<"zip_lookup">>, raised |-> FALSE] :
                 r \in ZipCityStates(Zip5(c))}
    [] WrapBranch(c) = "phone" ->
         {[variants |-> VariantsOf(c, [i \in 1..Len(q) |-> <<q[i].city, q[i].state>>]),
           log |-> <<"phone", "npa_lookup">>, raised |-> FALSE] :
            q \in {SelectSeq(p, LAMBDA a : Truthy(a.city) /\ Truthy(a.state)) :
                     p \in NpaGetAreaCodes(NpaId(c))}}
    [] OTHER ->
         {[variants |-> <<c>>, log |-> IF Truthy(c.phone) THEN <<"phone">> ELSE <<>>,
           raised |-> FALSE]}

\* The branch AlternativeContactsHelper.get_alternatives takes
\* (summaries.py:123, 130, 138, 144).
AltBranch(c) ==
  IF HasCityState(c) THEN "as_is"
  ELSE IF c.zip_code # None THEN "zip"
  ELSE IF NpaId(c) # None THEN "phone"
  ELSE "none"

\* AlternativeContactsHelper.get_alternatives (summaries.py:117-144).
AltOutcomes(c) ==
  CASE AltBranch(c) = "as_is" ->
         {[variants |-> <<c>>, log |-> <<>>, raised |-> FALSE]}
    [] AltBranch(c) = "zip" ->
         {[variants |-> VariantsOf(c, r), log |-> <<"zip_lookup">>, raised |-> FALSE] :
            r \in ZipCityStates(c.zip_code)}
    [] AltBranch(c) = "phone" ->
         {[variants |-> VariantsOf(c, r), log |-> <<"phone", "npa_lookup">>, raised |-> FALSE] :
            r \in NpaCityStates(NpaId(c))}
    [] OTHER ->
         {[variants |-> <<>>, log |-> IF Truthy(c.phone) THEN <<"phone">> ELSE <<>>,
           raised |-> FALSE]}

\* list(provider.wrap_contact(contact))
WrapContact(c) ==
  /\ \E o \in WrapOutcomes(c) :
       call' = [NoCall EXCEPT !.op = "wrap_contact", !.contact = c,
                              !.variants = o.variants, !.log = o.log, !.raised = o.raised]
  /\ UNCHANGED <<nm_names, index_built, name_to_index, zip_details, area_codes>>
  /\ UNCHANGED <<mergeVars, searchVars, summaryVars, fuzzyVars, workerVars, runVars>>

\* list(helper.get_alternatives(contact))
GetAlternatives(c) ==
  /\ \E o \in AltOutcomes(c) :
       call' = [NoCall EXCEPT !.op = "get_alternatives", !.contact = c,
                              !.variants = o.variants, !.log = o.log, !.raised = o.raised]
  /\ UNCHANGED <<nm_names, index_built, name_to_index, zip_details, area_codes>>
  /\ UNCHANGED <<mergeVars, searchVars, summaryVars, fuzzyVars, workerVars, runVars>>

---------------------------------------------------------------------------
(* The specifications of the lookups: SpecLookup makes the calls of the    *)
(* nickname index and of the two tables, SpecGeo those of the tables and   *)
(* of the expanders over them.                                             *)

MergeIdle ==
  /\ messy_names = <<>>
  /\ names = <<>>
  /\ index = 0
  /\ index2 = 0
  /\ merged = FALSE
  /\ pc = "idle"
  /\ run = 1

\* A NicknamesManager over some cluster list, or the two tables with some
\* rows.
LookupInit ==
  /\ SearchIdle
  /\ SummaryIdle
  /\ FuzzyIdle
  /\ WorkersIdle
  /\ FirstRun
  /\ MergeIdle
  /\ index_built = FALSE
  /\ name_to_index = EmptyMap
  /\ call = NoCall
  /\ \/ /\ nm_names \in ClusterLists
        /\ zip_details = {}
        /\ area_codes = {}
     \/ /\ nm_names = <<>>
        /\ zip_details \in SUBSET ZipDetailRows
        /\ area_codes \in SUBSET AreaCodeRows

LookupNext ==
  \/ NameToIndexCall
  \/ \E q \in QueryNames : GetIndex(q)
  \/ \E i \in (0 - 1)..(MaxClusters + 1) : GetNamesForIndex(i)
  \/ \E q \in QueryNames : GetRelatedNames(q)
  \/ \E z \in ZipQueries : ZipLookup(z)
  \/ \E k \in NpaQueries : NpaAreaCodes(k)
  \/ \E k \in NpaQueries : NpaLookup(k)

SpecLookup == LookupInit /\ [][LookupNext]_vars

GeoInit ==
  /\ SearchIdle
  /\ SummaryIdle
  /\ FuzzyIdle
  /\ WorkersIdle
  /\ FirstRun
  /\ MergeIdle
  /\ nm_names = <<>>
  /\ index_built = FALSE
  /\ name_to_index = EmptyMap
  /\ call = NoCall
  /\ zip_details \in SUBSET ZipDetailRows
  /\ area_codes \in SUBSET AreaCodeRows

GeoNext ==
  \/ \E z \in ZipQueries : ZipLookup(z)
  \/ \E k \in NpaQueries : NpaAreaCodes(k)
  \/ \E k \in NpaQueries : NpaLookup(k)
  \/ \E c \in Contacts : WrapContact(c)
  \/ \E c \in Contacts : GetAlternatives(c)

SpecGeo == GeoInit /\ [][GeoNext]_vars

---------------------------------------------------------------------------
(* The contribution store, the matcher and the summary selector            *)
(* (server/data/models.py, server/data/nicknames.py,                       *)
(* server/data/summaries.py).                                              *)

\* str.upper()
Upper(s) == [i \in 1..Len(s) |-> ToUpper(s[i])]

\* str.strip(), of blanks
RECURSIVE Strip(_)
Strip(s) ==
  IF s = <<>> THEN s
  ELSE IF Head(s) = " " THEN Strip(Tail(s))
  ELSE IF s[Len(s)] = " " THEN Strip(SubSeq(s, 1, Len(s) - 1))
  ELSE s

AL == <<"A", "L">>
ALAN == <<"A", "L", "A", "N">>
ALBERT == <<"A", "L", "B", "E", "R", "T">>
SMITH == <<"S", "M", "I", "T", "H">>
Z98109 == <<"9", "8", "1", "0", "9">>
Z10451 == <<"1", "0", "4", "5", "1">>

\* The lists of name sets a NicknamesManager (server/data/nicknames.py) is
\* constructed with: none, one set, two sets that share a name.
RawNameLists ==
  {<<>>,
   <<{<<"A", "l">>, <<"A", "l", "a", "n", " ">>}>>,
   <<{<<"A", "l">>, <<"A", "l", "a", "n", " ">>}, {AL, ALBERT}>>}

\* NicknamesManager.__init__ (server/data/nicknames.py:47-50): every name
\* upper-cased and stripped.
RelatedNamesInit(lists) ==
  [i \in 1..Len(lists) |-> {Strip(Upper(n)) : n \in lists[i]}]

\* A faulty variant: the name is looked up as it is spelled.
GetRelatedNameSets_AsSpelled(name) ==
  {related_names[i] : i \in {k \in 1..Len(related_names) : name \in related_names[k]}}

\* NicknamesManager.get_related_names (server/data/nicknames.py:78-83): the
\* frozenset of the sets the upper-cased, stripped name is in.
GetRelatedNameSets(name) ==
  {related_names[i] : i \in {k \in 1..Len(related_names) :
                               Strip(Upper(name)) \in related_names[k]}}

\* The contribution rows the databases may hold (models.py:216-232): an id,
\* the committee, the contributor and an amount.  Row 5 is a refund that
\* cancels row 1.
ContributionRows ==
  {[id |-> 1, committee_id |-> "C1", last_name |-> SMITH, first_name |-> AL,
    city |-> SEA, state |-> WA, zip5 |-> Z98101, amount |-> 3],
   [id |-> 2, committee_id |-> "C2", last_name |-> SMITH, first_name |-> ALAN,
    city |-> SEA, state |-> WA, zip5 |-> Z98109, amount |-> 5],
   [id |-> 3, committee_id |-> "C1", last_name |-> SMITH, first_name |-> AL,
    city |-> NYC, state |-> NY, zip5 |-> Z12345, amount |-> 2],
   [id |-> 4, committee_id |-> "C2", last_name |-> SMITH, first_name |-> AL,
    city |-> BX, state |-> NY, zip5 |-> Z10451, amount |-> 4],
   [id |-> 5, committee_id |-> "C1", last_name |-> SMITH, first_name |-> AL,
    city |-> SEA, state |-> WA, zip5 |-> Z98101, amount |-> 0 - 3]}

\* get_engine(data_manager, state) (models.py:403-407): the database of a
\* state holds the rows of that state.
Db(state) == {r \in store : r.state = state}

\* Contribution.for_last_zip_firsts_stmt (models.py:240-257), executed.
ForLastZipFirsts(db, last_name, zip_code, first_names) ==
  {r \in db : /\ r.last_name = Upper(last_name)
              /\ r.zip5 = Prefix(zip_code, 5)
              /\ r.first_name \in {Upper(n) : n \in first_names}}

\* Contribution.for_last_city_state_firsts_stmt (models.py:272-291),
\* executed.
ForLastCityStateFirsts(db, last_name, city, state, first_names) ==
  {r \in db : /\ r.last_name = Upper(last_name)
              /\ r.city = Upper(city)
              /\ r.state = Upper(state)
              /\ r.first_name \in {Upper(n) : n \in first_names}}

\* Contact.without_zip (contacts/__init__.py:41-43)
WithoutZip(c) == [c EXCEPT !.zip_code = None]

\* A faulty variant: the zip code is ignored and the query is by city and
\* state.
ContributionsKind_CityStateOnly(c) == "city_state"

\* The branch of ContributionSummaryManager._contributions
\* (summaries.py:165, 174).
ContributionsKind(c) == IF Zip5(c) = None THEN "city_state" ELSE "zip"

\* ContributionSummaryManager._contributions (summaries.py:161-177): the
\* one query it issues for a contact and a set of first names, with the rows
\* the query returns; by city and state, both must be there.
Contributions(db, c, related_name_set) ==
  IF ContributionsKind(c) = "city_state"
  THEN IF ~(Truthy(c.city) /\ Truthy(c.state))
       THEN [raised |-> TRUE, issued |-> <<>>, rows |-> {}]
       ELSE [raised |-> FALSE,
             issued |-> <<[kind |-> "city_state", last_name |-> c.last_name,
                           key |-> <<c.city, c.state>>,
                           first_names |-> related_name_set, contact |-> c]>>,
             rows |-> ForLastCityStateFirsts(db, c.last_name, c.city, c.state,
                                             related_name_set)]
  ELSE [raised |-> FALSE,
        issued |-> <<[kind |-> "zip", last_name |-> c.last_name,
                      key |-> <<Zip5(c)>>,
                      first_names |-> related_name_set, contact |-> c]>>,
        rows |-> ForLastZipFirsts(db, c.last_name, Zip5(c), related_name_set)]

\* sum(contribution.amount for ...) or Decimal(0)
RECURSIVE SumAmounts(_)
SumAmounts(rows) ==
  IF rows = {} THEN 0
  ELSE LET r == CHOOSE x \in rows : TRUE
       IN r.amount + SumAmounts(rows \ {r})

\* None, as a ContributionSummary | None.
NoSummary == [none |-> TRUE, rows |-> {}, total |-> 0]

\* ContributionSummary(contributions) (summaries.py:19-27), with its total.
SummaryOf(rows) == [none |-> FALSE, rows |-> rows, total |-> SumAmounts(rows)]

\* A faulty variant: a summary with a total of zero is kept.
KeepSummary_NonNegative(s) == s.total >= 0

\* `if summary.total > 0` (summaries.py:191)
KeepSummary(s) == s.total > 0

\* list(self._names_provider.get_related_names(contact.first_name)), or the
\* first name alone (summaries.py:181-186); a frozenset has no order of its
\* own.
NameSetOrders(c) ==
  IF GetRelatedNameSets(c.first_name) = {}
  THEN {<<{c.first_name}>>}
  ELSE Orders(GetRelatedNameSets(c.first_name))

\* ContributionSummaryManager._summaries_for_contact (summaries.py:179-193)
\* with the name sets in the order ns, from the i-th on: the queries issued
\* and the summaries kept.
RECURSIVE SummariesFrom(_, _, _, _)
SummariesFrom(db, c, ns, i) ==
  IF i > Len(ns) THEN [raised |-> FALSE, issued |-> <<>>, summaries |-> <<>>]
  ELSE LET got == Contributions(db, c, ns[i])
           made == SummaryOf(got.rows)
           rest == SummariesFrom(db, c, ns, i + 1)
       IN IF got.raised THEN [raised |-> TRUE, issued |-> <<>>, summaries |-> <<>>]
          ELSE [raised |-> rest.raised,
                issued |-> got.issued \o rest.issued,
                summaries |-> IF rest.raised THEN <<>>
                              ELSE IF KeepSummary(made) THEN <<made>> \o rest.summaries
                              ELSE rest.summaries]

SummariesForContact(db, c, ns) == SummariesFrom(db, c, ns, 1)

\* A faulty variant: the first summary found.
MaxByTotal_First(summaries) == summaries[1]

\* max(summaries, key=lambda s: s.total) (summaries.py:210): the first of
\* the summaries with the largest total.
MaxByTotal(summaries) ==
  summaries[CHOOSE i \in 1..Len(summaries) :
              /\ \A j \in 1..Len(summaries) : summaries[i].total >= summaries[j].total
              /\ \A j \in 1..(i - 1) : summaries[j].total < summaries[i].total]

\* A faulty variant: the contact's city and state are not asserted.
CityStateAsserted_Not(c) == TRUE

\* `assert contact.has_city_state` (summaries.py:199)
CityStateAsserted(c) == HasCityState(c)

\* try_contacts (summaries.py:200-202)
TryContacts(c) == IF HasZip(c) THEN <<c, WithoutZip(c)>> ELSE <<c>>

\* ContributionSummaryManager.preferred_summary_for_contact
\* (summaries.py:195-210) over the database db: the summary returned or
\* None, the queries issued, and whether an assertion failed.
PreferredOutcomes(db, c) ==
  IF ~CityStateAsserted(c)
  THEN {[raised |-> TRUE, summary |-> NoSummary, issued |-> <<>>]}
  ELSE
    LET tries == TryContacts(c)
        Untried == [raised |-> FALSE, issued |-> <<>>, summaries |-> <<>>]
        Outcome(r1, r2) ==
          IF r1.raised
          THEN [raised |-> TRUE, summary |-> NoSummary, issued |-> r1.issued]
          ELSE IF r2.raised
          THEN [raised |-> TRUE, summary |-> NoSummary, issued |-> r1.issued \o r2.issued]
          ELSE [raised |-> FALSE,
                summary |-> IF r1.summaries \o r2.summaries = <<>> THEN NoSummary
                            ELSE MaxByTotal(r1.summaries \o r2.summaries),
                issued |-> r1.issued \o r2.issued]
    IN {Outcome(SummariesForContact(db, tries[1], o1),
                IF Len(tries) > 1 THEN SummariesForContact(db, tries[2], o2)
                ELSE Untried) :
          o1 \in NameSetOrders(tries[1]), o2 \in NameSetOrders(tries[Len(tries)])}

---------------------------------------------------------------------------
(* The batch resolver: ContactContributionSearcher (server/data/search.py) *)

\* Contact.variant_id: the identity key of a variant, its names with its
\* city and state.
VariantId(c) == <<c.first_name, c.last_name, c.city, c.state>>

\* is_extant_db(data_manager, state): a database exists for the state.
IsExtantDb(state) == state \in extant

\* A faulty variant: a manager is made whether a database exists or not.
ManagerFor_Always(state, managers) == [found |-> TRUE, managers |-> managers \cup {state}]

\* ContactContributionSearcher._get_or_load_manager (search.py:20-29)
ManagerFor(state, managers) ==
  IF state \in managers THEN [found |-> TRUE, managers |-> managers]
  ELSE IF IsExtantDb(state) THEN [found |-> TRUE, managers |-> managers \cup {state}]
  ELSE [found |-> FALSE, managers |-> managers]

\* A faulty variant: the key is recorded whatever the selector returned.
SeenAfter_Always(c, s, found) == s \cup {VariantId(c)}

\* self._seen after search_and_summarize (search.py:41-42)
SeenAfter(c, s, found) == IF found THEN s \cup {VariantId(c)} ELSE s

\* `if contact.variant_id in self._seen` (search.py:33)
AlreadySeen(c, s) == VariantId(c) \in s

\* ContactContributionSearcher.search_and_summarize (search.py:31-44): what
\* it returns, the seen set and the managers after it, the queries issued.
SearchOutcomes(c, s, managers) ==
  IF AlreadySeen(c, s)
  THEN {[raised |-> FALSE, summary |-> NoSummary, issued |-> <<>>, seen |-> s,
         managers |-> managers, reached |-> "seen"]}
  ELSE IF ~Truthy(c.state)
  THEN {[raised |-> FALSE, summary |-> NoSummary, issued |-> <<>>, seen |-> s,
         managers |-> managers, reached |-> "no_state"]}
  ELSE IF ~ManagerFor(c.state, managers).found
  THEN {[raised |-> FALSE, summary |-> NoSummary, issued |-> <<>>, seen |-> s,
         managers |-> ManagerFor(c.state, managers).managers, reached |-> "no_db"]}
  ELSE {[raised |-> o.raised, summary |-> o.summary, issued |-> o.issued,
         seen |-> IF o.raised THEN s ELSE SeenAfter(c, s, ~o.summary.none),
         managers |-> ManagerFor(c.state, managers).managers,
         reached |-> "selector"] :
          o \in PreferredOutcomes(Db(c.state), c)}

\* import_id_to_summaries.setdefault(contact.import_id, []).append(pair)
\* (search.py:56-63); a dict keeps the order its keys were inserted in.
Appended(groups, import_id, pair) ==
  IF \E g \in 1..Len(groups) : groups[g].import_id = import_id
  THEN [g \in 1..Len(groups) |->
          IF groups[g].import_id = import_id
          THEN [groups[g] EXCEPT !.tuples = Append(@, pair)]
          ELSE groups[g]]
  ELSE Append(groups, [import_id |-> import_id, tuples |-> <<pair>>])

\* `summary.total_cents > best_summary.total_cents` (search.py:76)
Better(a, b) == a.total > b.total

\* The loop over a group's pairs (search.py:68-78): the best pair so far
\* after the first n pairs, or None.
RECURSIVE BestAfter(_, _)
BestAfter(tuples, n) ==
  IF n = 0 THEN [contact |-> NoContact, summary |-> NoSummary]
  ELSE LET best == BestAfter(tuples, n - 1)
       IN IF tuples[n].summary.none THEN best
          ELSE IF best.summary.none THEN tuples[n]
          ELSE IF Better(tuples[n].summary, best.summary) THEN tuples[n]
          ELSE best

\* A faulty variant: an unmatched group yields nothing of its own; the last
\* variant stands in.
BestPair_LastWhenUnmatched(tuples) ==
  IF BestAfter(tuples, Len(tuples)).summary.none
  THEN [contact |-> tuples[Len(tuples)].contact, summary |-> NoSummary]
  ELSE BestAfter(tuples, Len(tuples))

\* The pair yielded for a group (search.py:68-82).
BestPair(tuples) ==
  IF BestAfter(tuples, Len(tuples)).summary.none
  THEN [contact |-> tuples[1].contact, summary |-> NoSummary]
  ELSE BestAfter(tuples, Len(tuples))

\* A raw contact of a provider (contacts/google.py:38-47).
RawContact(import_id, city, state, zip_code, phone) ==
  [import_id |-> import_id, first_name |-> AL, last_name |-> SMITH,
   city |-> city, state |-> state, phone |-> phone, zip_code |-> zip_code]

\* The raw contacts of the batches: complete; a zip code of two cities; an
\* unknown zip code; nothing to go by; complete without zip code (the
\* identity of the first); a state without a city.
RawContacts ==
  {RawContact(<<"i", "1">>, SEA, WA, Z98101, None),
   RawContact(<<"i", "1">>, None, None, Z12345, None),
   RawContact(<<"i", "2">>, None, None, Z00000, None),
   RawContact(<<"i", "2">>, None, None, None, None),
   RawContact(<<"i", "2">>, SEA, WA, None, None),
   RawContact(<<"i", "2">>, None, WA, None, None)}

\* The most raw contacts in a batch.
MaxBatch == 2

RawBatches == UNION {[1..n -> RawContacts] : n \in 0..MaxBatch}

\* The contacts the selector is called with directly: those of the batches,
\* two more of a zip code, one whose first name is not in upper case and one
\* whose first name is in no set of related names.
SelectorContacts ==
  RawContacts \cup
  {RawContact(<<"i", "1">>, NYC, NY, Z12345, None),
   RawContact(<<"i", "1">>, BX, NY, Z12345, None),
   [RawContact(<<"i", "1">>, SEA, WA, Z98101, None) EXCEPT !.first_name = <<"A", "l">>],
   [RawContact(<<"i", "1">>, SEA, WA, Z98101, None) EXCEPT !.first_name = <<"B", "o">>]}

\* The states a database may exist for.
States == {WA, NY}

\* manager.preferred_summary_for_contact(contact), on the manager of a
\* state's database.
PreferredCall(c, st) ==
  /\ spc = "start"
  /\ \E o \in PreferredOutcomes(Db(st), c) :
       last' = [op |-> "preferred_summary_for_contact", contact |-> c,
                summary |-> o.summary, issued |-> o.issued, raised |-> o.raised,
                reached |-> "selector", seen_before |-> seen, db |-> st]
  /\ spc' = "called"
  /\ UNCHANGED <<store, extant, related_names, raw, raw_pos, pending, seen,
                 state_to_manager, import_id_to_summaries, out_pos, output>>
  /\ UNCHANGED <<mergeVars, lookupVars, summaryVars, fuzzyVars, workerVars, runVars>>

\* search_and_summarize_contacts(contacts) is called and its generator is
\* started (search.py:46-53).
StartBatch ==
  /\ spc = "start"
  /\ spc' = "collect"
  /\ UNCHANGED <<store, extant, related_names, raw, raw_pos, pending, seen,
                 state_to_manager, import_id_to_summaries, out_pos, output, last>>
  /\ UNCHANGED <<mergeVars, lookupVars, summaryVars, fuzzyVars, workerVars, runVars>>

\* ContactProviderWrapper.get_contacts (refine.py:20-23) takes the next raw
\* contact and wraps it.
TakeContact ==
  /\ spc = "collect"
  /\ pending = <<>>
  /\ raw_pos < Len(raw)
  /\ raw_pos' = raw_pos + 1
  /\ \E o \in WrapOutcomes(raw[raw_pos + 1]) :
       /\ pending' = IF o.raised THEN <<>> ELSE o.variants
       /\ spc' = IF o.raised THEN "raised" ELSE "collect"
  /\ UNCHANGED <<store, extant, related_names, raw, seen, state_to_manager,
                 import_id_to_summaries, out_pos, output, last>>
  /\ UNCHANGED <<mergeVars, lookupVars, summaryVars, fuzzyVars, workerVars, runVars>>

\* One turn of the first loop (search.py:54-63): the next variant is
\* searched and its pair is filed under its import_id; an assertion that
\* fails in the selector ends the run.
SearchStep ==
  /\ spc = "collect"
  /\ pending # <<>>
  /\ \E o \in SearchOutcomes(Head(pending), seen, state_to_manager) :
       /\ last' = [op |-> "search_and_summarize", contact |-> Head(pending),
                   summary |-> o.summary, issued |-> o.issued, raised |-> o.raised,
                   reached |-> o.reached, seen_before |-> seen, db |-> Head(pending).state]
       /\ seen' = o.seen
       /\ state_to_manager' = o.managers
       /\ spc' = IF o.raised THEN "raised" ELSE "collect"
       /\ import_id_to_summaries' =
            IF o.raised THEN import_id_to_summaries
            ELSE Appended(import_id_to_summaries, Head(pending).import_id,
                          [contact |-> Head(pending), summary |-> o.summary])
  /\ pending' = Tail(pending)
  /\ UNCHANGED <<store, extant, related_names, raw, raw_pos, out_pos, output>>
  /\ UNCHANGED <<mergeVars, lookupVars, summaryVars, fuzzyVars, workerVars, runVars>>

\* The provider is exhausted: the first loop ends (search.py:54, 67).
EndCollect ==
  /\ spc = "collect"
  /\ pending = <<>>
  /\ raw_pos = Len(raw)
  /\ spc' = "emit"
  /\ UNCHANGED <<store, extant, related_names, raw, raw_pos, pending, seen,
                 state_to_manager, import_id_to_summaries, out_pos, output, last>>
  /\ UNCHANGED <<mergeVars, lookupVars, summaryVars, fuzzyVars, workerVars, runVars>>

\* One turn of the second loop (search.py:67-82): the best pair of the next
\* group is yielded.
EmitStep ==
  /\ spc = "emit"
  /\ out_pos < Len(import_id_to_summaries)
  /\ out_pos' = out_pos + 1
  /\ output' = Append(output, BestPair(import_id_to_summaries[out_pos + 1].tuples))
  /\ UNCHANGED <<store, extant, related_names, raw, raw_pos, pending, seen,
                 state_to_manager, import_id_to_summaries, spc, last>>
  /\ UNCHANGED <<mergeVars, lookupVars, summaryVars, fuzzyVars, workerVars, runVars>>

\* The generator is exhausted (search.py:67).
EndEmit ==
  /\ spc = "emit"
  /\ out_pos = Len(import_id_to_summaries)
  /\ spc' = "done"
  /\ UNCHANGED <<store, extant, related_names, raw, raw_pos, pending, seen,
                 state_to_manager, import_id_to_summaries, out_pos, output, last>>
  /\ UNCHANGED <<mergeVars, lookupVars, summaryVars, fuzzyVars, workerVars, runVars>>

\* The rows the selector's databases may hold: those of the batches and one
\* more of the city and zip code of row 2, with the same amount, under a
\* first name of another set of related names.
SelectorRows ==
  ContributionRows \cup
    {[id |-> 6, committee_id |-> "C3", last_name |-> SMITH, first_name |-> ALBERT,
      city |-> SEA, state |-> WA, zip5 |-> Z98109, amount |-> 5]}

\* A manager per state over some databases and nicknames
\* (ContributionSummaryManager.__init__, summaries.py:152-159).
SelectorInit ==
  /\ MergeIdle
  /\ SummaryIdle
  /\ FuzzyIdle
  /\ WorkersIdle
  /\ FirstRun
  /\ LookupIdle
  /\ store \in SUBSET SelectorRows
  /\ extant = States
  /\ related_names \in {RelatedNamesInit(l) : l \in RawNameLists}
  /\ raw = <<>>
  /\ raw_pos = 0
  /\ pending = <<>>
  /\ seen = {}
  /\ state_to_manager = {}
  /\ import_id_to_summaries = <<>>
  /\ out_pos = 0
  /\ output = <<>>
  /\ spc = "start"
  /\ last = [op |-> "none"]

SelectorNext == \E c \in SelectorContacts, st \in States : PreferredCall(c, st)

SpecSelector == SelectorInit /\ [][SelectorNext]_vars

\* A searcher over some databases and nicknames
\* (ContactContributionSearcher.__init__, search.py:14-18), a refining
\* provider over some raw contacts and the two tables (fec.py:488-522).
SearchInit ==
  /\ MergeIdle
  /\ SummaryIdle
  /\ FuzzyIdle
  /\ WorkersIdle
  /\ FirstRun
  /\ nm_names = <<>>
  /\ index_built = FALSE
  /\ name_to_index = EmptyMap
  /\ call = NoCall
  /\ zip_details = ZipDetailRows
  /\ area_codes = AreaCodeRows
  /\ store \in SUBSET ContributionRows
  /\ extant \in {{}, {WA}, {WA, NY}}
  /\ related_names \in {RelatedNamesInit(l) : l \in RawNameLists}
  /\ raw \in RawBatches
  /\ raw_pos = 0
  /\ pending = <<>>
  /\ seen = {}
  /\ state_to_manager = {}
  /\ import_id_to_summaries = <<>>
  /\ out_pos = 0
  /\ output = <<>>
  /\ spc = "start"
  /\ last = [op |-> "none"]

SearchNext ==
  \/ StartBatch
  \/ TakeContact
  \/ SearchStep
  \/ EndCollect
  \/ EmitStep
  \/ EndEmit

SpecSearch == SearchInit /\ [][SearchNext]_vars

---------------------------------------------------------------------------
(* Contribution summaries: the running ContributionSummary of              *)
(* server/data/fec/contributions.py and the ContributionSummary over a     *)
(* list of records of server/data/summaries.py.                            *)

\* The party of no party: None as a key of by_party.
NoParty == "<None>"

\* IGetCommittee.get_committee (fec/committees.py:152-157) over the known
\* committees, with Committee.party (fec/committees.py:110): two committees
\* of one party, one of another, one without a party.  Any other id is of no
\* known committee.
KnownCommittees ==
  [c \in {"C1", "C2", "C3", "C4"} |->
     CASE c = "C1" -> "DEM" [] c = "C2" -> "DEM" [] c = "C3" -> "GRE" [] OTHER -> NoParty]

\* `party = None if committee is None else committee.party`
\* (fec/contributions.py:296-297, 312-313)
PartyOf(committee_id) ==
  IF committee_id \in DOMAIN KnownCommittees THEN KnownCommittees[committee_id]
  ELSE NoParty

\* The contributions summaries are made of (fec/contributions.py:174-185):
\* a committee and an amount, which may be nothing or a refund.
FecContributions ==
  [committee_id : {"C1", "C2", "C3", "C4", "C9"}, amount : {0 - 2, 0, 3}]

\* The most contributions in one summary.
MaxContributions == 3

\* A faulty variant: the amount replaces the bucket's value.
AddTo_Overwrite(d, k, amount) ==
  [x \in DOMAIN d \cup {k} |-> IF x = k THEN amount ELSE d[x]]

\* d[k] = d.get(k, Decimal(0)) + Decimal(amount)
\* (fec/contributions.py:314-319)
AddTo(d, k, amount) ==
  [x \in DOMAIN d \cup {k} |->
     IF x = k THEN (IF k \in DOMAIN d THEN d[k] ELSE 0) + amount ELSE d[x]]

\* ContributionSummary.new (fec/contributions.py:286-307)
New(c) ==
  /\ summary.none
  /\ summary' = [none |-> FALSE,
                 total |-> c.amount,
                 by_party |-> [p \in {PartyOf(c.committee_id)} |-> c.amount],
                 by_committee |-> [k \in {c.committee_id} |-> c.amount]]
  /\ contributions' = <<c>>
  /\ UNCHANGED <<mergeVars, lookupVars, searchVars, fuzzyVars, workerVars, runVars>>

\* ContributionSummary.add (fec/contributions.py:309-319)
Add(c) ==
  /\ ~summary.none
  /\ Len(contributions) < MaxContributions
  /\ summary' = [none |-> FALSE,
                 total |-> summary.total + c.amount,
                 by_party |-> AddTo(summary.by_party, PartyOf(c.committee_id), c.amount),
                 by_committee |-> AddTo(summary.by_committee, c.committee_id, c.amount)]
  /\ contributions' = Append(contributions, c)
  /\ UNCHANGED <<mergeVars, lookupVars, searchVars, fuzzyVars, workerVars, runVars>>

\* ContributionSummary.total (summaries.py:22-27) over a list of records
RECURSIVE ListTotal(_)
ListTotal(list) ==
  IF list = <<>> THEN 0 ELSE Head(list).amount + ListTotal(Tail(list))

\* ContributionSummary.committees (summaries.py:29-31)
Committees(list) == {list[i].committee_id : i \in 1..Len(list)}

\* ContributionSummary.committee_total (summaries.py:33-39)
CommitteeTotal(list, committee) ==
  ListTotal(SelectSeq(list, LAMBDA c : c.committee_id = committee))

\* ContributionSummary.parties (summaries.py:45-50)
Parties(list) == {PartyOf(list[i].committee_id) : i \in 1..Len(list)}

\* ContributionSummary.party_total (summaries.py:52-58)
PartyTotal(list, party) ==
  ListTotal(SelectSeq(list, LAMBDA c : PartyOf(c.committee_id) = party))

SummaryInit ==
  /\ MergeIdle
  /\ LookupIdle
  /\ SearchIdle
  /\ SummaryIdle
  /\ FuzzyIdle
  /\ WorkersIdle
  /\ FirstRun

SummaryNext ==
  \/ \E c \in FecContributions : New(c)
  \/ \E c \in FecContributions : Add(c)

SpecSummary == SummaryInit /\ [][SummaryNext]_vars

---------------------------------------------------------------------------
(* ContributionsManager and FuzzyIdentifier                                *)
(* (server/data/fec/contributions.py): the summaries by fuzzy id.          *)

\* s up to its first ch: s.split(ch)[0]
RECURSIVE BeforeChar(_, _)
BeforeChar(s, ch) ==
  IF s = <<>> \/ Head(s) = ch THEN <<>>
  ELSE <<Head(s)>> \o BeforeChar(Tail(s), ch)

\* Whether s.split(ch) has more than one part.
HasChar(s, ch) == \E i \in 1..Len(s) : s[i] = ch

\* s after its first ch: what s.split(ch)[1:] is split from
RECURSIVE AfterChar(_, _)
AfterChar(s, ch) ==
  IF s = <<>> THEN <<>>
  ELSE IF Head(s) = ch THEN Tail(s)
  ELSE AfterChar(Tail(s), ch)

\* split_name (fec/contributions.py:25-37)
SplitName(name) ==
  [last_name |-> Strip(BeforeChar(name, ",")),
   first_name |->
     IF ~HasChar(name, ",") THEN None
     ELSE Strip(BeforeChar(Strip(BeforeChar(AfterChar(name, ","), ",")), " "))]

\* str() of an index
DigitChars == <<"0", "1", "2", "3", "4", "5", "6", "7", "8", "9">>

RECURSIVE Str(_)
Str(i) ==
  IF i < 10 THEN <<DigitChars[i + 1]>>
  ELSE Str(i \div 10) \o <<DigitChars[(i % 10) + 1]>>

\* FuzzyIdentifier._first_nickname (fec/contributions.py:99-105) as the
\* f-string formats it (None as "None"), m being the name-to-index map
\* get_index looks the name up in.
FirstNickname(first_name, m) ==
  IF first_name = None THEN <<"N", "o", "n", "e">>
  ELSE IF DictGet(m, first_name).found THEN Str(DictGet(m, first_name).index)
  ELSE first_name

\* FuzzyIdentifier._make_fuzzy_id (fec/contributions.py:107-109)
MakeFuzzyId(last_name, first_name, zip_code, m) ==
  Upper(last_name \o <<"-">> \o FirstNickname(first_name, m) \o <<"-">> \o zip_code)

\* FuzzyIdentifier.from_name (fec/contributions.py:68-76)
FromName(name, zip_code, m) ==
  MakeFuzzyId(SplitName(name).last_name, SplitName(name).first_name, zip_code, m)

\* The contributors of the raw list: a last name, a first name or none, and
\* what follows the first name.
BO == <<"B", "O">>

Contributors ==
  {[last |-> SMITH, first |-> AL, more |-> <<>>],
   [last |-> SMITH, first |-> ALAN, more |-> <<" ", "J">>],
   [last |-> SMITH, first |-> BO, more |-> <<>>],
   [last |-> SMITH, first |-> None, more |-> <<>>]}

\* NAME of the FEC file: LAST, FIRST <MORE>, or LAST alone.
NameOf(p) ==
  IF p.first = None THEN p.last
  ELSE p.last \o <<",", " ">> \o p.first \o p.more

\* The raw contributions (fec/contributions.py:173-184): who gave, the zip
\* code, the committee and the amount.  by records who the name was made
\* from; the code has the name only.
RawContributions ==
  {[name |-> NameOf(p), zip_code |-> z, committee_id |-> k.committee_id,
    amount |-> k.amount, by |-> p] :
     p \in Contributors, z \in {Z98101, Z12345},
     k \in {[committee_id |-> "C1", amount |-> 3], [committee_id |-> "C3", amount |-> 0 - 2]}}

\* The most contributions in a raw list.
MaxRaw == 3

RawLists == UNION {[1..n -> RawContributions] : n \in 0..MaxRaw}

\* The cluster lists of the NicknamesManager the manager is given: none, one
\* cluster in title case (as from_messy_io makes them), the same cluster in
\* upper case (as the FEC file spells names), the two names in clusters of
\* their own, and a list with a name in two clusters.
FuzzyClusterLists ==
  {<<>>,
   <<{Title(BO)}, {Title(AL), Title(ALAN)}>>,
   <<{AL, ALAN}>>,
   <<{Title(AL)}, {Title(ALAN)}>>,
   <<{Title(AL)}, {Title(AL), Title(ALAN)}>>}

\* ContributionSummary.new (fec/contributions.py:286-307); of is the
\* positions in the raw list of the contributions the summary was made of,
\* which the code does not keep.
NewSummary(fuzzy_id, c, i) ==
  [fuzzy_id |-> fuzzy_id, name |-> c.name, zip_code |-> c.zip_code,
   total |-> c.amount,
   by_party |-> [p \in {PartyOf(c.committee_id)} |-> c.amount],
   by_committee |-> [k \in {c.committee_id} |-> c.amount],
   of |-> {i}]

\* ContributionSummary.add (fec/contributions.py:309-319)
AddedSummary(s, c, i) ==
  [s EXCEPT !.total = s.total + c.amount,
            !.by_party = AddTo(s.by_party, PartyOf(c.committee_id), c.amount),
            !.by_committee = AddTo(s.by_committee, c.committee_id, c.amount),
            !.of = s.of \cup {i}]

\* The loop of _summarize_contributions from contribution i on
\* (fec/contributions.py:436-451), sums being the dict so far and o the
\* outcome of building the name-to-index map, which the first get_index
\* does: when that raised, the loop ends at the first contribution that has
\* a first name.
RECURSIVE SummarizeFrom(_, _, _, _)
SummarizeFrom(list, i, sums, o) ==
  IF i > Len(list) THEN [sums |-> sums, raised |-> FALSE, looked_up |-> FALSE]
  ELSE LET c == list[i]
           looks_up == SplitName(c.name).first_name # None
           fuzzy_id == FromName(c.name, c.zip_code, o.map)
           next == IF fuzzy_id \in DOMAIN sums
                   THEN [sums EXCEPT ![fuzzy_id] = AddedSummary(sums[fuzzy_id], c, i)]
                   ELSE sums @@ [f \in {fuzzy_id} |-> NewSummary(fuzzy_id, c, i)]
           rest == SummarizeFrom(list, i + 1, next, o)
       IN IF looks_up /\ o.raised
          THEN [sums |-> sums, raised |-> TRUE, looked_up |-> TRUE]
          ELSE [rest EXCEPT !.looked_up = looks_up \/ rest.looked_up]

\* manager.contribution_summaries (fec/contributions.py:432-460): the
\* summaries are made on the first call and kept.
ContributionSummariesCall ==
  /\ IF summarized
     THEN /\ fcall' = [op |-> "contribution_summaries", raised |-> FALSE, made_now |-> FALSE]
          /\ UNCHANGED <<contribution_summaries, summarized, index_built, name_to_index>>
     ELSE \E o \in IndexIfNeeded :
            LET r == SummarizeFrom(fec_contributions, 1, EmptyMap, o)
            IN /\ contribution_summaries' = r.sums
               /\ summarized' = TRUE
               /\ index_built' = (index_built \/ r.looked_up)
               /\ name_to_index' = IF r.looked_up THEN o.map ELSE name_to_index
               /\ fcall' = [op |-> "contribution_summaries", raised |-> r.raised,
                            made_now |-> TRUE]
  /\ UNCHANGED <<fec_contributions, nm_names, zip_details, area_codes, call>>
  /\ UNCHANGED <<mergeVars, searchVars, summaryVars, workerVars, runVars>>

\* A ContributionsManager over some raw list and some NicknamesManager.
FuzzyInit ==
  /\ MergeIdle
  /\ SearchIdle
  /\ SummaryIdle
  /\ nm_names \in FuzzyClusterLists
  /\ index_built = FALSE
  /\ name_to_index = EmptyMap
  /\ zip_details = {}
  /\ area_codes = {}
  /\ call = NoCall
  /\ fec_contributions \in RawLists
  /\ contribution_summaries = EmptyMap
  /\ summarized = FALSE
  /\ fcall = [op |-> "none"]
  /\ WorkersIdle
  /\ FirstRun

FuzzyNext == ContributionSummariesCall

SpecFuzzy == FuzzyInit /\ [][FuzzyNext]_vars

---------------------------------------------------------------------------
(* Workers that call search_and_summarize on one searcher at the same      *)
(* time: the method's statements (server/data/search.py:31-44) one by one. *)
(* The searcher has no lock, so the statements of two calls interleave in  *)
(* any order.                                                              *)

\* The most calls a worker makes.
MaxCalls == 1

\* The contacts the workers call with: a complete one, one of the same
\* identity without its zip code, and one of another state.
WorkerContacts ==
  {RawContact(<<"i", "1">>, SEA, WA, Z98101, None),
   RawContact(<<"i", "2">>, SEA, WA, None, None),
   RawContact(<<"i", "1">>, NYC, NY, Z12345, None)}

\* A worker calls search_and_summarize(contact) (search.py:31).
WCall(w, c) ==
  /\ wpc[w] = "idle"
  /\ wcalls[w] < MaxCalls
  /\ wpc' = [wpc EXCEPT ![w] = "check"]
  /\ wcontact' = [wcontact EXCEPT ![w] = c]
  /\ wsummary' = [wsummary EXCEPT ![w] = NoSummary]
  /\ wcalls' = [wcalls EXCEPT ![w] = @ + 1]
  /\ UNCHANGED <<resolved, searchVars>>
  /\ UNCHANGED <<mergeVars, lookupVars, summaryVars, fuzzyVars, runVars>>

\* `if contact.variant_id in self._seen: return None` (search.py:33-34)
WCheckSeen(w) ==
  /\ wpc[w] = "check"
  /\ wpc' = [wpc EXCEPT ![w] = IF AlreadySeen(wcontact[w], seen) THEN "idle" ELSE "manager"]
  /\ UNCHANGED <<wcontact, wsummary, wcalls, resolved, searchVars>>
  /\ UNCHANGED <<mergeVars, lookupVars, summaryVars, fuzzyVars, runVars>>

\* The state and the manager of the state (search.py:35-39).
WGetManager(w) ==
  /\ wpc[w] = "manager"
  /\ IF ~Truthy(wcontact[w].state)
     THEN /\ wpc' = [wpc EXCEPT ![w] = "idle"]
          /\ UNCHANGED state_to_manager
     ELSE /\ wpc' = [wpc EXCEPT ![w] =
                       IF ManagerFor(wcontact[w].state, state_to_manager).found
                       THEN "select" ELSE "idle"]
          /\ state_to_manager' = ManagerFor(wcontact[w].state, state_to_manager).managers
  /\ UNCHANGED <<wcontact, wsummary, wcalls, resolved>>
  /\ UNCHANGED <<store, extant, related_names, raw, raw_pos, pending, seen,
                 import_id_to_summaries, out_pos, output, spc, last>>
  /\ UNCHANGED <<mergeVars, lookupVars, summaryVars, fuzzyVars, runVars>>

\* `summary = manager.preferred_summary_for_contact(contact)` (search.py:40)
WSelect(w) ==
  /\ wpc[w] = "select"
  /\ \E o \in PreferredOutcomes(Db(wcontact[w].state), wcontact[w]) :
       /\ wpc' = [wpc EXCEPT ![w] = IF o.raised THEN "raised" ELSE "selected"]
       /\ wsummary' = [wsummary EXCEPT ![w] = o.summary]
  /\ UNCHANGED <<wcontact, wcalls, resolved, searchVars>>
  /\ UNCHANGED <<mergeVars, lookupVars, summaryVars, fuzzyVars, runVars>>

\* `if summary is not None: self._seen.add(...); return summary` and
\* `return None` (search.py:41-44)
WReturn(w) ==
  /\ wpc[w] = "selected"
  /\ seen' = SeenAfter(wcontact[w], seen, ~wsummary[w].none)
  /\ resolved' =
       IF wsummary[w].none THEN resolved
       ELSE resolved \cup {[worker |-> w, call |-> wcalls[w], key |-> VariantId(wcontact[w])]}
  /\ wpc' = [wpc EXCEPT ![w] = "idle"]
  /\ UNCHANGED <<wcontact, wsummary, wcalls>>
  /\ UNCHANGED <<store, extant, related_names, raw, raw_pos, pending,
                 state_to_manager, import_id_to_summaries, out_pos, output, spc, last>>
  /\ UNCHANGED <<mergeVars, lookupVars, summaryVars, fuzzyVars, runVars>>

\* One searcher over some databases (search.py:14-18), and its workers.
WorkersInit ==
  /\ MergeIdle
  /\ SummaryIdle
  /\ FuzzyIdle
  /\ WorkersIdle
  /\ FirstRun
  /\ LookupIdle
  /\ store \in SUBSET ContributionRows
  /\ extant \in {{WA}, {WA, NY}}
  /\ related_names \in {RelatedNamesInit(l) : l \in RawNameLists}
  /\ raw = <<>>
  /\ raw_pos = 0
  /\ pending = <<>>
  /\ seen = {}
  /\ state_to_manager = {}
  /\ import_id_to_summaries = <<>>
  /\ out_pos = 0
  /\ output = <<>>
  /\ spc = "start"
  /\ last = [op |-> "none"]

WorkersNext ==
  \E w \in Workers :
    \/ \E c \in WorkerContacts : WCall(w, c)
    \/ WCheckSeen(w)
    \/ WGetManager(w)
    \/ WSelect(w)
    \/ WReturn(w)

SpecWorkers == WorkersInit /\ [][WorkersNext]_vars

---------------------------------------------------------------------------
(* Runs of search_and_summarize_contacts on one searcher.                  *)

\* The most calls of search_and_summarize_contacts on one searcher.
MaxRuns == 2

\* search_and_summarize_contacts is called again on the same searcher with
\* the same provider, once the generator of the call before is exhausted:
\* import_id_to_summaries is a local of the call (search.py:51-53), while
\* self._seen and self._state_to_manager are the searcher's
\* (search.py:17-18) and no statement of the class empties them.
RunAgain ==
  /\ spc = "done"
  /\ run_no < MaxRuns
  /\ run_no' = run_no + 1
  /\ first_output' = IF run_no = 1 THEN output ELSE first_output
  /\ raw_pos' = 0
  /\ pending' = <<>>
  /\ import_id_to_summaries' = <<>>
  /\ out_pos' = 0
  /\ output' = <<>>
  /\ spc' = "collect"
  /\ UNCHANGED <<store, extant, related_names, raw, seen, state_to_manager, last>>
  /\ UNCHANGED <<mergeVars, lookupVars, summaryVars, fuzzyVars, workerVars>>

RunsNext ==
  \/ StartBatch
  \/ TakeContact
  \/ SearchStep
  \/ EndCollect
  \/ EmitStep
  \/ EndEmit
  \/ RunAgain

SpecRuns == SearchInit /\ [][RunsNext]_vars

---------------------------------------------------------------------------
(* What the builder is to compute, stated without its loops.               *)

\* All names of a list of sets.
AllNames(s) == UNION {s[i] : i \in 1..Len(s)}

PairwiseDisjoint(s) ==
  \A i, j \in 1..Len(s) : i # j => s[i] \cap s[j] = {}

\* The names reachable from the set S through lines that share a name.
RECURSIVE Close(_, _)
Close(S, lines) ==
  LET T == S \cup UNION {lines[i] : i \in {k \in 1..Len(lines) : lines[k] \cap S # {}}}
  IN IF T = S THEN S ELSE Close(T, lines)

\* a and b are linked by a chain of lines, consecutive lines sharing a name.
Linked(a, b, lines) == b \in Close({a}, lines)

SameCluster(a, b, s) == \E i \in 1..Len(s) : a \in s[i] /\ b \in s[i]

\* The positions of the lines that are the earliest of their cluster.
FirstLines(lines) ==
  {i \in 1..Len(lines) : \A j \in 1..(i - 1) : lines[j] \cap Close(lines[i], lines) = {}}

\* The clusters, in the order of their earliest lines.
ExpectedClusters(lines) ==
  LET firsts == SelectSeq([i \in 1..Len(lines) |-> i],
                          LAMBDA i : i \in FirstLines(lines))
  IN [k \in 1..Len(firsts) |-> Close(lines[firsts[k]], lines)]

\* C1: for any finite list of input sets the builder terminates, and its
\* result is a list of pairwise-disjoint sets whose union is the union of
\* the input sets: every input name is in exactly one output cluster.
C1_ClusterPartition ==
  /\ [](pc = "done" =>
          /\ PairwiseDisjoint(names)
          /\ AllNames(names) = AllNames(messy_names)
          /\ \A n \in AllNames(messy_names) :
               Cardinality({i \in 1..Len(names) : n \in names[i]}) = 1)
  /\ <>[](pc = "done" /\ run = 2)

C1_Witness ==
  /\ pc = "done"
  /\ run = 1
  /\ Len(names) >= 2
  /\ Len(names) < Len(messy_names)
  /\ ~PairwiseDisjoint(messy_names)

\* C2: two input names are in the same output cluster iff they are linked
\* by a chain of input lines in which consecutive lines share a name.
C2_TransitiveClusters ==
  pc = "done" =>
    \A a, b \in AllNames(messy_names) :
      SameCluster(a, b, names) <=> Linked(a, b, messy_names)

\* Two names that share no input line end in one cluster.
C2_Witness ==
  /\ pc = "done"
  /\ run = 1
  /\ \E a, b \in AllNames(messy_names) :
       /\ SameCluster(a, b, names)
       /\ ~SameCluster(a, b, messy_names)

\* C3: fed its own output, the builder returns the same list, with the
\* same membership and the same order.
C3_Idempotent == (pc = "done" /\ run = 2) => names = messy_names

C3_Witness ==
  /\ pc = "done"
  /\ run = 2
  /\ Len(names) >= 2
  /\ \E i \in 1..Len(names) : Cardinality(names[i]) >= 2

\* C4: the output clusters are ordered by the position of the earliest
\* input line of each cluster, and a cluster's index is its position in
\* the list.
C4_ClusterOrder ==
  pc = "done" =>
    /\ names = ExpectedClusters(messy_names)
    /\ \A o \in IndexNames(names) :
         /\ ~o.raised
         /\ DOMAIN o.map = AllNames(messy_names)
         /\ \A n \in AllNames(messy_names) :
              n \in ExpectedClusters(messy_names)[o.map[n] + 1]

\* Two clusters, the first made of lines around a line of the second.
C4_Witness ==
  /\ pc = "done"
  /\ run = 1
  /\ Len(names) = 2
  /\ \E i, j, k \in 1..Len(messy_names) :
       /\ i < j /\ j < k
       /\ messy_names[i] # {} /\ messy_names[i] \subseteq names[1]
       /\ messy_names[j] # {} /\ messy_names[j] \subseteq names[2]
       /\ messy_names[k] # {} /\ messy_names[k] \subseteq names[1]

---------------------------------------------------------------------------
(* The nickname index and the lookups.                                     *)

\* The cluster holding a stored name, when exactly one does.
ClustersOf(n) == {k \in 1..Len(nm_names) : n \in nm_names[k]}

\* A cluster list as the builder leaves it: no name in two clusters, and no
\* name stored in two spellings.
WellFormedIndex ==
  /\ PairwiseDisjoint(nm_names)
  /\ \A a, b \in AllNames(nm_names) : CaseEq(a, b) => a = b

\* C5: building the name-to-index map over a cluster list in which a name
\* occurs in two clusters fails with an error: the call that builds the map
\* raises and returns no index.
C5_DuplicateNameFails ==
  (call.built_now /\ ~PairwiseDisjoint(nm_names)) =>
     (call.raised /\ ~call.found)

C5_Witness ==
  /\ call.op = "name_to_index"
  /\ call.built_now
  /\ call.raised
  /\ Len(nm_names) = 2
  /\ nm_names[1] \cap nm_names[2] # {}

\* C6, as claimed: for every name stored in a cluster, get_index called
\* with that name in any letter case returns the index of that cluster, and
\* get_related_names returns that cluster's member set, which contains the
\* stored name.
C6_AnyCaseLookup ==
  (/\ call.op \in {"get_index", "get_related_names"}
   /\ WellFormedIndex) =>
     \A n \in AllNames(nm_names) :
       CaseEq(call.name, n) =>
         /\ ~call.raised
         /\ call.found
         /\ ClustersOf(n) = {call.index + 1}
         /\ call.op = "get_related_names" =>
              (call.members = nm_names[call.index + 1] /\ n \in call.members)

\* No stored name is the query's name in any spelling.
UnknownName(q) == \A n \in AllNames(nm_names) : ~CaseEq(q, n)

\* C7: a lookup miss is not an exception.  Over clusters that share no
\* name, get_index of an unknown name returns None and get_related_names
\* the empty set; get_names_for_index of an index out of range returns the
\* empty set; the postal-code and the area-code lookups return no row and
\* no pair for a key that has no row.
C7_MissIsNoException ==
  /\ (/\ call.op \in {"get_index", "get_related_names"}
      /\ PairwiseDisjoint(nm_names)
      /\ UnknownName(call.name)) =>
        (~call.raised /\ ~call.found /\ call.members = {})
  /\ (/\ call.op = "get_names_for_index"
      /\ (call.idx < 0 \/ call.idx >= Len(nm_names))) =>
        (~call.raised /\ call.members = {})
  /\ (/\ call.op = "zip_get_city_states"
      /\ \A d \in zip_details : d.zip5 # Prefix(call.key, 5)) =>
        (~call.raised /\ call.pairs = <<>>)
  /\ (/\ call.op \in {"npa_get_area_codes", "npa_get_city_states"}
      /\ \A a \in area_codes : a.npa_id # call.key) =>
        (~call.raised /\ call.pairs = <<>> /\ call.codes = <<>>)

C7_Witness ==
  /\ call.op = "get_names_for_index"
  /\ Len(nm_names) = 2
  /\ nm_names[2] # {}
  /\ call.idx = 2
  /\ call.members = {}

---------------------------------------------------------------------------
(* The expanders.                                                          *)

IsExpansion == call.op \in {"wrap_contact", "get_alternatives"}

\* The (city, state) pairs the zip table holds for a zip code.
PairsOfZip(z) ==
  {<<d.city, d.state>> : d \in {r \in zip_details : r.zip5 = Prefix(z, 5)}}

\* C8, as claimed: get_city_states(npa_id) yields no pair whose city or
\* state is missing or empty, and no variant is made from an area code with
\* an empty city or state.
C8_NoPartialPair ==
  /\ call.op = "npa_get_city_states" =>
       \A i \in 1..Len(call.pairs) :
         Truthy(call.pairs[i][1]) /\ Truthy(call.pairs[i][2])
  /\ (/\ IsExpansion
      /\ ~HasCityState(call.contact)
      /\ call.contact.zip_code = None
      /\ NpaId(call.contact) # None) =>
        \A i \in 1..Len(call.variants) :
          Truthy(call.variants[i].city) /\ Truthy(call.variants[i].state)

\* C9: a contact that has both city and state is yielded as it is, as the
\* only variant, and neither lookup is consulted.
C9_CityStateKept ==
  (IsExpansion /\ HasCityState(call.contact)) =>
     /\ ~call.raised
     /\ call.variants = <<call.contact>>
     /\ call.log = <<>>

C9_Witness ==
  /\ call.op = "wrap_contact"
  /\ HasCityState(call.contact)
  /\ call.contact.zip_code = Z12345_6789
  /\ call.contact.phone = PHONE206
  /\ PairsOfZip(Z12345_6789) # {}
  /\ area_codes # {}
  /\ Len(call.variants) = 1

\* C10: for a contact without city and state that has a zip code, the
\* variants are one per (city, state) pair of the postal lookup for the
\* zip, each the contact with that city and state and nothing else changed;
\* the phone and the area-code lookup are not consulted, also when the
\* lookup has no pair, and then there is no variant.
C10_ZipExpansion ==
  (IsExpansion /\ ~HasCityState(call.contact) /\ call.contact.zip_code # None) =>
     /\ ~call.raised
     /\ call.log = <<"zip_lookup">>
     /\ Len(call.variants) = Cardinality(PairsOfZip(call.contact.zip_code))
     /\ {<<call.variants[i].city, call.variants[i].state>> : i \in 1..Len(call.variants)}
          = PairsOfZip(call.contact.zip_code)
     /\ \A i \in 1..Len(call.variants) :
          call.variants[i] =
            [call.contact EXCEPT !.city = call.variants[i].city,
                                 !.state = call.variants[i].state]

C10_Witness ==
  /\ call.op = "get_alternatives"
  /\ call.contact.city = None
  /\ call.contact.state = WA
  /\ call.contact.zip_code = Z12345_6789
  /\ call.contact.phone = PHONE206
  /\ \E a \in area_codes : a.npa_id = NPA206
  /\ Len(call.variants) = 2

\* C11, as claimed: a contact with no zip code, no North-American phone
\* number and no city and state yields no variant, from either expander.
C11_NoExpansion ==
  (/\ IsExpansion
   /\ ~HasCityState(call.contact)
   /\ call.contact.zip_code = None
   /\ NpaId(call.contact) = None) =>
     /\ ~call.raised
     /\ call.variants = <<>>

---------------------------------------------------------------------------
(* The matcher, the selector and the batch resolver.                       *)

\* The last call was of the selector and came back.
SelectorReturned ==
  /\ last.op = "preferred_summary_for_contact"
  /\ ~last.raised

\* The candidate contacts of a contact: itself, and itself without its zip
\* code when it has one.
Candidates(c) ==
  IF c.zip_code # None THEN {c, [c EXCEPT !.zip_code = None]} ELSE {c}

\* The first-name variant sets of a contact: the sets of related names its
\* first name is in, or its first name alone.
VariantSets(c) ==
  IF \E k \in 1..Len(related_names) : Strip(Upper(c.first_name)) \in related_names[k]
  THEN {related_names[k] : k \in {j \in 1..Len(related_names) :
                                    Strip(Upper(c.first_name)) \in related_names[j]}}
  ELSE {{c.first_name}}

\* C12: for each candidate contact and each first-name variant set the
\* matcher issues exactly one query, by (last name, first five digits of
\* the zip code, first names) when the candidate has a zip code and by
\* (last name, city, state, first names) when it has none; there is no
\* other query.
C12_OneQueryPerCandidate ==
  SelectorReturned =>
    /\ \A cand \in Candidates(last.contact), ns \in VariantSets(last.contact) :
         Cardinality({i \in 1..Len(last.issued) :
                        /\ last.issued[i].contact = cand
                        /\ last.issued[i].first_names = ns}) = 1
    /\ Len(last.issued) =
         Cardinality(Candidates(last.contact)) * Cardinality(VariantSets(last.contact))
    /\ \A i \in 1..Len(last.issued) :
         LET q == last.issued[i]
         IN /\ q.last_name = q.contact.last_name
            /\ q.contact.zip_code # None =>
                 /\ q.kind = "zip"
                 /\ q.key = <<SubSeq(q.contact.zip_code, 1, 5)>>
            /\ q.contact.zip_code = None =>
                 /\ q.kind = "city_state"
                 /\ q.key = <<q.contact.city, q.contact.state>>

C12_Witness ==
  /\ SelectorReturned
  /\ last.contact.zip_code = Z98101
  /\ Len(related_names) = 2
  /\ Len(last.issued) = 4
  /\ {last.issued[i].kind : i \in 1..Len(last.issued)} = {"zip", "city_state"}

\* The sum of the values of a dict.
RECURSIVE SumValues(_)
SumValues(d) ==
  IF DOMAIN d = {} THEN 0
  ELSE LET k == CHOOSE x \in DOMAIN d : TRUE
       IN d[k] + SumValues([x \in DOMAIN d \ {k} |-> d[x]])

\* The sum of the totals of the parties P over the list of contributions.
RECURSIVE SumPartyTotals(_)
SumPartyTotals(P) ==
  IF P = {} THEN 0
  ELSE LET p == CHOOSE x \in P : TRUE
       IN PartyTotal(contributions, p) + SumPartyTotals(P \ {p})

\* The sum of the totals of the committees K over the list of contributions.
RECURSIVE SumCommitteeTotals(_)
SumCommitteeTotals(K) ==
  IF K = {} THEN 0
  ELSE LET k == CHOOSE x \in K : TRUE
       IN CommitteeTotal(contributions, k) + SumCommitteeTotals(K \ {k})

\* The sum of the amounts of the contributions given so far.
RECURSIVE AmountsUpTo(_)
AmountsUpTo(n) == IF n = 0 THEN 0 ELSE contributions[n].amount + AmountsUpTo(n - 1)

\* C13: a summary made by new() and any number of add() has a total equal
\* to the sum of the amounts, to the sum of its by_party values (the bucket
\* of no party included) and to the sum of its by_committee values; and so
\* has the summary over the list of the same records, by its totals per
\* party and per committee.
C13_SummaryAdditive ==
  ~summary.none =>
    /\ summary.total = AmountsUpTo(Len(contributions))
    /\ summary.total = SumValues(summary.by_party)
    /\ summary.total = SumValues(summary.by_committee)
    /\ ListTotal(contributions) = AmountsUpTo(Len(contributions))
    /\ ListTotal(contributions) =
         SumPartyTotals(Parties(contributions))
    /\ ListTotal(contributions) =
         SumCommitteeTotals(Committees(contributions))

C13_Witness ==
  /\ ~summary.none
  /\ Len(contributions) = 3
  /\ contributions[1].committee_id = "C1"
  /\ contributions[2].committee_id = "C2"
  /\ contributions[3].committee_id = "C9"
  /\ DOMAIN summary.by_party = {"DEM", NoParty}
  /\ summary.by_party["DEM"] = 6
  /\ summary.total = 4

\* The last call was search_and_summarize and it went through the selector,
\* which came back.
Searched ==
  /\ last.op = "search_and_summarize"
  /\ last.reached = "selector"
  /\ ~last.raised

\* The rows of the database db that a logged query matches.
MatchedRows(q, db) ==
  {r \in store :
     /\ r.state = db
     /\ r.last_name = Upper(q.last_name)
     /\ \E n \in q.first_names : r.first_name = Upper(n)
     /\ IF q.kind = "zip" THEN r.zip5 = q.key[1]
        ELSE r.city = Upper(q.key[1]) /\ r.state = Upper(q.key[2])}

\* The total of the record sets matched, one per query of the last call.
MatchedTotals ==
  {SumAmounts(MatchedRows(last.issued[i], last.db)) : i \in 1..Len(last.issued)}

\* C14: a summary the selector returns, and a summary in a pair of the
\* batch's output, has a total above zero; when every record set matched
\* has a total of zero or less, the answer is no match.
C14_PositiveTotalsOnly ==
  /\ (Searched /\ ~last.summary.none) =>
       /\ last.summary.total > 0
       /\ last.summary.total = SumAmounts(last.summary.rows)
  /\ \A i \in 1..Len(output) :
       ~output[i].summary.none =>
          /\ output[i].summary.total > 0
          /\ output[i].summary.total = SumAmounts(output[i].summary.rows)
  /\ (Searched /\ \A t \in MatchedTotals : t <= 0) => last.summary.none

C14_Witness ==
  /\ Searched
  /\ last.summary.none
  /\ \E i \in 1..Len(last.issued) :
       /\ Cardinality(MatchedRows(last.issued[i], last.db)) = 2
       /\ SumAmounts(MatchedRows(last.issued[i], last.db)) = 0

\* The rows of the database db that match a candidate contact and a
\* first-name variant set: by zip code when the candidate has one, by city
\* and state when not.
ComboRows(cand, ns, db) ==
  {r \in store :
     /\ r.state = db
     /\ r.last_name = Upper(cand.last_name)
     /\ \E n \in ns : r.first_name = Upper(n)
     /\ IF cand.zip_code # None THEN r.zip5 = SubSeq(cand.zip_code, 1, 5)
        ELSE r.city = Upper(cand.city) /\ r.state = Upper(cand.state)}

\* The positive totals over the (candidate, variant set) combinations of
\* the contact of the last call.
PositiveTotals ==
  {t \in {SumAmounts(ComboRows(cand, ns, last.db)) :
            cand \in Candidates(last.contact), ns \in VariantSets(last.contact)} :
     t > 0}

\* C15: the selector returns a summary whose total is one of the positive
\* totals of the combinations and is not below any of them, and it returns
\* no match exactly when no combination has a positive total.
C15_LargestTotal ==
  SelectorReturned =>
    /\ last.summary.none <=> PositiveTotals = {}
    /\ ~last.summary.none =>
         /\ last.summary.total = SumAmounts(last.summary.rows)
         /\ last.summary.total \in PositiveTotals
         /\ \A t \in PositiveTotals : last.summary.total >= t

C15_Witness ==
  /\ SelectorReturned
  /\ last.contact.zip_code = Z98101
  /\ ~last.summary.none
  /\ last.summary.total = 8
  /\ PositiveTotals = {3, 8}

\* C16: the selector called with a contact that lacks its city or its state
\* fails its assertion: no query has been issued and no summary is
\* returned.
C16_CityStateRequired ==
  (last.op = "preferred_summary_for_contact"
     /\ (last.contact.city = None \/ last.contact.state = None)) =>
    /\ last.raised
    /\ last.issued = <<>>
    /\ last.summary.none

C16_Witness ==
  /\ last.op = "preferred_summary_for_contact"
  /\ last.contact.city = None
  /\ last.contact.state = None
  /\ last.contact.zip_code = Z12345
  /\ \E r \in store : r.zip5 = Z12345 /\ r.state = last.db
  /\ last.raised

\* C17, as claimed: when the batch is done, its output has exactly one pair
\* for each import_id of the raw contacts, also for a raw contact that
\* expands to no variant, and no two pairs of one import_id.
C17_OnePairPerImportId ==
  spc = "done" =>
    /\ {output[i].contact.import_id : i \in 1..Len(output)} =
         {raw[i].import_id : i \in 1..Len(raw)}
    /\ \A i, j \in 1..Len(output) :
         output[i].contact.import_id = output[j].contact.import_id => i = j

\* The pairs of a group whose summary is not None.
Matched(tuples) == {i \in 1..Len(tuples) : ~tuples[i].summary.none}

\* C18: the pair yielded for a group is one of the group's pairs, variant
\* and summary together, and no matched pair of the group has a larger
\* total; when no variant of the group matched, it is the group's first
\* variant with None.
C18_BestPairOfGroup ==
  \A k \in 1..Len(output) :
    LET tuples == import_id_to_summaries[k].tuples
    IN /\ \A i \in 1..Len(tuples) :
            tuples[i].contact.import_id = import_id_to_summaries[k].import_id
       /\ IF Matched(tuples) = {}
          THEN output[k] = [contact |-> tuples[1].contact, summary |-> NoSummary]
          ELSE \E i \in Matched(tuples) :
                 /\ output[k] = tuples[i]
                 /\ \A j \in Matched(tuples) :
                      tuples[i].summary.total >= tuples[j].summary.total

C18_Witness ==
  /\ spc = "done"
  /\ Len(output) = 1
  /\ Len(import_id_to_summaries[1].tuples) = 3
  /\ import_id_to_summaries[1].tuples[1].summary.total = 3
  /\ output[1].summary.total = 4
  /\ output[1].contact.city = BX

\* A batch can also end with two variants of one group unmatched.
C18_WitnessUnmatched ==
  /\ spc = "done"
  /\ Len(output) = 1
  /\ Len(import_id_to_summaries[1].tuples) = 2
  /\ Matched(import_id_to_summaries[1].tuples) = {}
  /\ output[1].contact.city = BX

\* One step of a run, as to the seen set: it loses no key; a key it gains
\* is the key of the variant just searched, for which the selector returned
\* a summary with a positive total; a no-match adds none; and a variant
\* whose key is in the set already is answered None with no query.
SeenStep ==
  /\ seen \subseteq seen'
  /\ \A k \in seen' \ seen :
       /\ last'.op = "search_and_summarize"
       /\ last'.reached = "selector"
       /\ k = <<last'.contact.first_name, last'.contact.last_name,
                last'.contact.city, last'.contact.state>>
       /\ ~last'.summary.none
       /\ last'.summary.total > 0
  /\ (last' # last /\ last'.op = "search_and_summarize" /\ last'.summary.none) =>
       seen' = seen
  /\ (spc = "collect" /\ pending # <<>>
        /\ <<Head(pending).first_name, Head(pending).last_name,
             Head(pending).city, Head(pending).state>> \in seen) =>
       /\ last'.contact = Head(pending)
       /\ last'.summary.none
       /\ last'.issued = <<>>
       /\ seen' = seen

\* C19: throughout a run a key enters the seen set only with a positive
\* summary of the selector for a variant of that key, a no-match adds no
\* key, the set never shrinks, and a variant whose key is in the set is
\* answered with no match and no store query.
C19_SeenOnlyMatched == [][SeenStep]_vars

C19_Witness ==
  /\ last.op = "search_and_summarize"
  /\ last.reached = "seen"
  /\ last.seen_before = {<<AL, SMITH, SEA, WA>>}
  /\ last.contact.zip_code = None
  /\ last.summary.none
  /\ \E r \in store : r.city = SEA /\ r.amount > 0
  /\ WA \in state_to_manager

\* C20: search_and_summarize of a contact whose state has no database
\* returns None, raises nothing, issues no query and leaves the seen set as
\* it was; the run is not ended by it and goes on to take the contacts that
\* remain.
C20_NoDatabaseIsNoMatch ==
  /\ (/\ last.op = "search_and_summarize"
      /\ last.contact.state # None
      /\ last.contact.state # <<>>
      /\ last.contact.state \notin extant) =>
        /\ ~last.raised
        /\ last.summary.none
        /\ last.issued = <<>>
        /\ seen = last.seen_before
        /\ last.contact.state \notin state_to_manager
        /\ spc # "raised"
        /\ Len(import_id_to_summaries) > 0
  /\ spc \in {"emit", "done"} => (raw_pos = Len(raw) /\ pending = <<>>)

C20_Witness ==
  /\ spc = "done"
  /\ NY \notin extant
  /\ \E r \in store : r.state = NY /\ r.amount > 0
  /\ Len(raw) = 2
  /\ Len(output) = 1
  /\ Len(import_id_to_summaries[1].tuples) = 3
  /\ import_id_to_summaries[1].tuples[1].contact.state = NY
  /\ import_id_to_summaries[1].tuples[1].summary.none
  /\ import_id_to_summaries[1].tuples[3].contact.state = WA
  /\ ~output[1].summary.none

---------------------------------------------------------------------------
(* The summaries by fuzzy id.                                              *)

\* The summaries of the manager, as a set.
Summaries == {contribution_summaries[f] : f \in DOMAIN contribution_summaries}

\* The first names of two contributors are equal or in one cluster of the
\* NicknamesManager, in whatever letter case the cluster holds them.
SameFirstName(p, q) ==
  \/ p.first = q.first
  \/ /\ p.first # None
     /\ q.first # None
     /\ \E k \in 1..Len(nm_names) :
          \E a, b \in nm_names[k] : CaseEq(a, p.first) /\ CaseEq(b, q.first)

RECURSIVE SumTotals(_)
SumTotals(S) ==
  IF S = {} THEN 0
  ELSE LET s == CHOOSE x \in S : TRUE IN s.total + SumTotals(S \ {s})

\* C21, as claimed: contribution_summaries places every contribution in
\* exactly one summary; two contributions with the same last name and zip
\* code are in the same summary when their first names are equal or belong
\* to the same nickname cluster; and the totals of the summaries add up to
\* the sum of all amounts.
C21_OneSummaryPerFuzzyId ==
  (/\ fcall.op = "contribution_summaries"
   /\ PairwiseDisjoint(nm_names)) =>
     /\ ~fcall.raised
     /\ \A i \in 1..Len(fec_contributions) :
          Cardinality({s \in Summaries : i \in s.of}) = 1
     /\ \A i, j \in 1..Len(fec_contributions) :
          (/\ fec_contributions[i].by.last = fec_contributions[j].by.last
           /\ fec_contributions[i].zip_code = fec_contributions[j].zip_code
           /\ SameFirstName(fec_contributions[i].by, fec_contributions[j].by)) =>
             \E s \in Summaries : {i, j} \subseteq s.of
     /\ SumTotals(Summaries) = ListTotal(fec_contributions)

\* C22, as claimed: when a contact has a zip code and the zip-specific
\* candidate yields a positive summary, the selector issues no query by city
\* and state and returns a summary of the zip-specific candidate.
C22_ZipStrippedOnlyAsFallback ==
  (/\ SelectorReturned
   /\ last.contact.zip_code # None
   /\ \E ns \in VariantSets(last.contact) :
        SumAmounts(ComboRows(last.contact, ns, last.db)) > 0) =>
     /\ \A i \in 1..Len(last.issued) : last.issued[i].kind # "city_state"
     /\ ~last.summary.none
     /\ \E ns \in VariantSets(last.contact) :
          /\ last.summary.rows = ComboRows(last.contact, ns, last.db)
          /\ last.summary.total > 0

\* C23, as claimed: the summary the selector returns for a contact is the
\* one it returns on every evaluation with the same contact, nickname sets
\* and store, in whatever order the sets of related names are iterated, also
\* when two candidate summaries share the largest total.
C23_SameSummaryEveryTime ==
  SelectorReturned =>
    \A o \in PreferredOutcomes(Db(last.db), last.contact) :
      o.summary = last.summary

\* C24, as claimed: when workers call search_and_summarize on one searcher
\* at the same time, no identity key is resolved to a summary by two of
\* them.
C24_NoDoubleResolution ==
  \A r1, r2 \in resolved : r1.key = r2.key => r1.worker = r2.worker

\* C25, as claimed: a second call of search_and_summarize_contacts on the
\* same searcher, with the same contacts and the store unchanged, yields the
\* pairs the first call yielded.
C25_SameOutputNextRun ==
  (run_no = 2 /\ spc = "done") => output = first_output

\* The selector, called on its own for a variant, returns a summary.
SelectorMatches(c) ==
  /\ HasCityState(c)
  /\ c.state \in extant
  /\ \E o \in PreferredOutcomes(Db(c.state), c) : ~o.raised /\ ~o.summary.none

\* C26, as claimed: when the selector on its own returns a summary for some
\* variant of an import_id, the pair the batch yields for that import_id
\* has a summary, whatever the other contacts of the batch are.
C26_MatchSurvivesDedup ==
  spc = "done" =>
    \A g \in 1..Len(import_id_to_summaries) :
      (\E k \in 1..Len(import_id_to_summaries[g].tuples) :
         SelectorMatches(import_id_to_summaries[g].tuples[k].contact)) =>
        ~output[g].summary.none

\* The phases of a run, in their order.
PhaseNo(p) ==
  CASE p = "start" -> 0 [] p = "collect" -> 1 [] p = "emit" -> 2 [] OTHER -> 3

\* A step of a run in which the phases keep their order: no raw contact is
\* expanded after a store query was issued, no store query is issued after
\* an output pair was chosen, and the run does not step back.
PhaseStep ==
  /\ (last.op = "search_and_summarize" /\ last.issued # <<>>) => raw_pos' = raw_pos
  /\ output # <<>> => last' = last
  /\ PhaseNo(spc') >= PhaseNo(spc)

\* C27, as claimed (what it says of the order of the steps): a batch run
\* passes through expanding, matching, selection per import_id and done in
\* that order: once a store query has been issued no further contact is
\* expanded, once an output pair has been chosen no further store query is
\* issued.
C27_PhasesInOrder == [][PhaseStep]_vars

\* C28, as claimed: a variant without its city or without its state is
\* answered with None by search_and_summarize and does not reach the
\* selector, so that no assertion of the selector ends a batch.
C28_SelectorGetsCityState ==
  /\ (last.op = "search_and_summarize" /\ ~HasCityState(last.contact)) =>
       /\ last.reached # "selector"
       /\ ~last.raised
       /\ last.summary.none
  /\ spc # "raised"

\* The sets of related names that hold a first name, in whatever letter
\* case it is spelled.
ClustersWith(name) ==
  {related_names[k] : k \in {j \in 1..Len(related_names) :
                               \E m \in related_names[j] : CaseEq(m, name)}}

\* C29: every store query of the selector is for a set of first names that
\* holds the contact's own first name, letter case aside: for every
\* candidate contact, one query for each set of related names that holds
\* the name when there is such a set, and otherwise one query in all, for
\* the first name alone.
C29_OwnNameInEveryQuery ==
  SelectorReturned =>
    /\ \A i \in 1..Len(last.issued) :
         /\ \E n \in last.issued[i].first_names : CaseEq(n, last.contact.first_name)
         /\ IF ClustersWith(last.contact.first_name) # {}
            THEN last.issued[i].first_names \in ClustersWith(last.contact.first_name)
            ELSE last.issued[i].first_names = {last.contact.first_name}
    /\ \A cand \in Candidates(last.contact) :
         {last.issued[i].first_names :
            i \in {j \in 1..Len(last.issued) : last.issued[j].contact = cand}} =
           IF ClustersWith(last.contact.first_name) # {}
           THEN ClustersWith(last.contact.first_name)
           ELSE {{last.contact.first_name}}
    /\ ClustersWith(last.contact.first_name) = {} =>
         Len(last.issued) = Cardinality(Candidates(last.contact))

C29_Witness ==
  /\ SelectorReturned
  /\ last.contact.first_name = <<"A", "l">>
  /\ Len(related_names) = 2
  /\ Cardinality(ClustersWith(last.contact.first_name)) = 2
  /\ Len(last.issued) = 4

C29_WitnessLiteral ==
  /\ SelectorReturned
  /\ last.contact.first_name = <<"B", "o">>
  /\ Len(related_names) = 2
  /\ Len(last.issued) = 2
  /\ last.issued[1].first_names = {<<"B", "o">>}

\* C30, as claimed: over a cluster list with a name in two clusters, every
\* call of name_to_index, get_index or get_related_names fails, the calls
\* after the one that tried to build the map as well.
C30_FailureNotMasked ==
  (/\ call.op \in {"name_to_index", "get_index", "get_related_names"}
   /\ ~PairwiseDisjoint(nm_names)) =>
     call.raised

===========================================================================
